---------------------------- MODULE Spec2Model ----------------------------
(***************************************************************************)
(* A model of the health tracker's CSV interchange (src/core/core-         *)
(* scripts.js: escapeCSV, convertDataToCSV, parseCSVData, parseCSVRow,     *)
(* importData) and of its streak analysis (src/habits/habits-scripts.js:   *)
(* calculateStreaks).                                                      *)
(*                                                                         *)
(* Text.  A JavaScript string is a sequence of tokens.  A token is one     *)
(* of the characters the code tests for (comma, double quote, line feed,   *)
(* carriage return, space, underscore, a decimal digit) or an atom: a      *)
(* non-empty run of other characters ("water_history", "2024-03-30",       *)
(* "Chest") that the code only ever compares as a whole.                   *)
(***************************************************************************)
EXTENDS Integers, Sequences, FiniteSets, TLC

VARIABLES
    rowFields,   \* tokenizer: the field list F handed to the writer
    rowLine,     \* tokenizer: the line written for F
    rowParsed,   \* tokenizer: what parseCSVRow returns for the line
    rowPc,       \* tokenizer: "idle" | "start" | "written" | "parsed"
    strHistory,  \* streaks: the habit's history, day number -> status
    strZone,     \* streaks: the time zone the browser runs in
    strResult,   \* streaks: what calculateStreaks returns
    strPc,       \* streaks: "idle" | "start" | "done"
    cdStore,     \* codec: localStorage
    cdCsv,       \* codec: the CSV text of the file
    cdBase,      \* codec: the CSV text before lines were inserted into it
    cdEdit,      \* codec: how the exported text was edited
    cdJunk,      \* codec: whether a line was inserted into the text
    cdDecoded,   \* codec: what parseCSVData returns for the file
    cdPc,        \* codec: "idle" | "store" | "exported" | "decoded"
    imStore,     \* import: localStorage
    imBefore,    \* import: localStorage when the import began
    imFile,      \* import: the text of the chosen file
    imSize,      \* import: the length of JSON.stringify(importedData)
    imAnswer,    \* import: what the user answers to confirm()
    imFailAt,    \* import: which setItem call of the import throws (0: none)
    imOutcome,   \* import: "none" | "error" | "declined" | "restored" | "imported"
    imPc,        \* import: "idle" | "ready" | "done"
    escValue,    \* escaping: the value handed to escapeCSV
    escResult,   \* escaping: what escapeCSV returns for it
    escPc,       \* escaping: "idle" | "start" | "done"
    wkStore,     \* workouts: localStorage
    wkState,     \* workouts: this.workoutState
    wkCounts,    \* workouts: this.workoutCounts
    wkHistory,   \* workouts: this.workoutHistory
    wkDay,       \* workouts: the local calendar day (its day number)
    wkClock,     \* workouts: the instants passed, one per click
    wkPc,        \* workouts: "idle" | "closed" | "running"
    wkOp,        \* workouts: the last operation called and its argument
    wkBefore,    \* workouts: state, counts and history when it was called
    hsStore,     \* habit save: localStorage
    hsBefore,    \* habit save: localStorage when saveHabits was called
    hsHabits,    \* habit save: this.habits
    hsNearQuota, \* habit save: what storageManager.isNearQuota() answers
    hsFailures,  \* habit save: how many writes of habits_data throw
    hsCleaned,   \* habit save: what cleanupOldData() returned
    hsPc,        \* habit save: "idle" | "loaded" | "saved" | "cleaned"
    anHistory,   \* analyzer: this.workoutHistory
    anZone,      \* analyzer: the time zone the browser runs in
    anView,      \* analyzer: this.selectedWorkoutView
    anResult,    \* analyzer: what calculateWorkoutStreaks returns
    anPc,        \* analyzer: "idle" | "start" | "done"
    rmNow,       \* reminders: the local time, in hours since 00:00 of day 0
    rmGranted,   \* reminders: Notification.permission === 'granted'
    rmStored,    \* reminders: reminder -> its key of localStorage is 'true'
    rmInterval,  \* reminders: notification_water_interval (0: absent)
    rmPending,   \* reminders: the timers the browser holds
    rmHandle,    \* reminders: slot -> its timer variable holds an id
    rmRan,       \* reminders: slot -> the last day its callback ran (-1: none)
    rmSince,     \* reminders: slot -> when it is first due (-1: not scheduled)
    rmEvents,    \* reminders: the user's actions so far
    rmPc,        \* reminders: "idle" | "loaded"
    lpStatus,    \* long press: day cell -> habit.history[dateKey] ("none": absent)
    lpContext,   \* long press: this.longPressContext
    lpOrigin,    \* long press: this.touchOrigin is set
    lpHandler,   \* long press: this.touchMoveHandler (0: null)
    lpListeners, \* long press: the touchmove listeners of the document
    lpTimers,    \* long press: the timers the browser holds
    lpPress,     \* long press: the presses so far and what became of each
    lpPc         \* long press: "idle" | "rendered"

rowVars == <<rowFields, rowLine, rowParsed, rowPc>>
strVars == <<strHistory, strZone, strResult, strPc>>
cdVars == <<cdStore, cdCsv, cdBase, cdEdit, cdJunk, cdDecoded, cdPc>>
imVars == <<imStore, imBefore, imFile, imSize, imAnswer, imFailAt, imOutcome,
            imPc>>
escVars == <<escValue, escResult, escPc>>
wkVars == <<wkStore, wkState, wkCounts, wkHistory, wkDay, wkClock, wkPc,
            wkOp, wkBefore>>
hsVars == <<hsStore, hsBefore, hsHabits, hsNearQuota, hsFailures, hsCleaned,
            hsPc>>
anVars == <<anHistory, anZone, anView, anResult, anPc>>
rmVars == <<rmNow, rmGranted, rmStored, rmInterval, rmPending, rmHandle, rmRan,
            rmSince, rmEvents, rmPc>>
lpVars == <<lpStatus, lpContext, lpOrigin, lpHandler, lpListeners, lpTimers,
            lpPress, lpPc>>
vars == <<rowVars, strVars, cdVars, imVars, escVars, wkVars, hsVars, anVars,
          rmVars, lpVars>>

\* What the actions of one part leave unchanged.
notRow == <<strVars, cdVars, imVars, escVars, wkVars, hsVars, anVars, rmVars,
             lpVars>>
notStr == <<rowVars, cdVars, imVars, escVars, wkVars, hsVars, anVars, rmVars,
             lpVars>>
notCd == <<rowVars, strVars, imVars, escVars, wkVars, hsVars, anVars, rmVars,
            lpVars>>
notIm == <<rowVars, strVars, cdVars, escVars, wkVars, hsVars, anVars, rmVars,
            lpVars>>
notEsc == <<rowVars, strVars, cdVars, imVars, wkVars, hsVars, anVars, rmVars,
             lpVars>>
notWk == <<rowVars, strVars, cdVars, imVars, escVars, hsVars, anVars, rmVars,
            lpVars>>
notHs == <<rowVars, strVars, cdVars, imVars, escVars, wkVars, anVars, rmVars,
            lpVars>>
notAn == <<rowVars, strVars, cdVars, imVars, escVars, wkVars, hsVars, rmVars,
            lpVars>>
notRm == <<rowVars, strVars, cdVars, imVars, escVars, wkVars, hsVars, anVars,
           lpVars>>
notLp == <<rowVars, strVars, cdVars, imVars, escVars, wkVars, hsVars, anVars,
           rmVars>>

\* The parts of the state a specification does not exercise stay idle.
RowIdle ==
    /\ rowFields = <<>>
    /\ rowLine = <<>>
    /\ rowParsed = <<>>
    /\ rowPc = "idle"

StrIdle ==
    /\ strHistory = <<>>
    /\ strZone = [base |-> 0, dst |-> 0 - 1]
    /\ strResult = <<>>
    /\ strPc = "idle"

CdIdle ==
    /\ cdStore = <<>>
    /\ cdCsv = <<>>
    /\ cdBase = <<>>
    /\ cdEdit = "none"
    /\ cdJunk = FALSE
    /\ cdDecoded = [ok |-> FALSE, error |-> ""]
    /\ cdPc = "idle"

ImIdle ==
    /\ imStore = <<>>
    /\ imBefore = <<>>
    /\ imFile = <<>>
    /\ imSize = 0
    /\ imAnswer = FALSE
    /\ imFailAt = 0
    /\ imOutcome = "none"
    /\ imPc = "idle"

EscIdle ==
    /\ escValue = <<>>
    /\ escResult = <<>>
    /\ escPc = "idle"

WkIdle ==
    /\ wkStore = <<>>
    /\ wkState = <<>>
    /\ wkCounts = <<>>
    /\ wkHistory = <<>>
    /\ wkDay = 0
    /\ wkClock = 0
    /\ wkPc = "idle"
    /\ wkOp = <<>>
    /\ wkBefore = <<>>

HsIdle ==
    /\ hsStore = <<>>
    /\ hsBefore = <<>>
    /\ hsHabits = <<>>
    /\ hsNearQuota = FALSE
    /\ hsFailures = 0
    /\ hsCleaned = FALSE
    /\ hsPc = "idle"

AnIdle ==
    /\ anHistory = <<>>
    /\ anZone = [base |-> 0, dst |-> 0 - 1]
    /\ anView = "all"
    /\ anResult = <<>>
    /\ anPc = "idle"

RmIdle ==
    /\ rmNow = 0
    /\ rmGranted = FALSE
    /\ rmStored = <<>>
    /\ rmInterval = 0
    /\ rmPending = {}
    /\ rmHandle = <<>>
    /\ rmRan = <<>>
    /\ rmSince = <<>>
    /\ rmEvents = 0
    /\ rmPc = "idle"

LpIdle ==
    /\ lpStatus = <<>>
    /\ lpContext = <<>>
    /\ lpOrigin = FALSE
    /\ lpHandler = 0
    /\ lpListeners = {}
    /\ lpTimers = {}
    /\ lpPress = <<>>
    /\ lpPc = "idle"

---------------------------------------------------------------------------
(* Bounds of the model *)

MaxFieldLen == 2
MaxFields == 2
MaxDay == 5
MaxEntries == 2
MaxHabits == 2
MaxReorderRows == 5
MaxEscapeLen == 3
MaxLineLen == 4
MaxClicks == 3
MaxExtraDays == 1
MaxReminderDays == 2
MaxReminderEvents == 2
MaxPresses == 3
MaxDataRows == 2

---------------------------------------------------------------------------
(* JavaScript values *)

Undef == [t |-> "undefined"]
Null == [t |-> "null"]
NaN == [t |-> "NaN"]
Str(s) == [t |-> "string", s |-> s]
Num(n) == [t |-> "number", n |-> n]
Bool(b) == [t |-> "boolean", b |-> b]

COMMA == ","
QUOTE == "\""
LF == "\n"
CR == "\r"
SPACE == " "
UNDERSCORE == "_"

Digits == <<"0", "1", "2", "3", "4", "5", "6", "7", "8", "9">>

IsDigit(c) == \E i \in 1..10 : Digits[i] = c

DigitValue(c) == (CHOOSE i \in 1..10 : Digits[i] = c) - 1

\* Number.prototype.toString for the non-negative integers of the model.
RECURSIVE NatToString(_)
NatToString(n) ==
    IF n < 10 THEN <<Digits[n + 1]>>
    ELSE NatToString(n \div 10) \o <<Digits[(n % 10) + 1]>>

\* String(value), for a value that is neither null nor undefined.
JSString(v) ==
    CASE v.t = "string" -> v.s
      [] v.t = "number" -> NatToString(v.n)
      [] v.t = "NaN" -> <<"NaN">>
      [] v.t = "boolean" -> IF v.b THEN <<"true">> ELSE <<"false">>
      [] v.t = "null" -> <<"null">>
      [] v.t = "undefined" -> <<"undefined">>

Includes(s, c) == \E i \in 1..Len(s) : s[i] = c

\* The string with its double quotes left single.
KeepQuotes(s) == s

\* stringValue.replace(/"/g, '""')
RECURSIVE DoubleQuotes(_)
DoubleQuotes(s) ==
    IF s = <<>> THEN <<>>
    ELSE (IF Head(s) = QUOTE THEN <<QUOTE, QUOTE>> ELSE <<Head(s)>>)
         \o DoubleQuotes(Tail(s))

\* The string form of the value, never wrapped in quotes.
escapeWithoutQuoting(value) ==
    IF value = Null \/ value = Undef THEN <<>> ELSE JSString(value)

escapeCSV(value) ==
    IF value = Null \/ value = Undef THEN <<>>
    ELSE LET stringValue == JSString(value) IN
         IF Includes(stringValue, COMMA) \/ Includes(stringValue, QUOTE)
            \/ Includes(stringValue, LF)
         THEN <<QUOTE>> \o DoubleQuotes(stringValue) \o <<QUOTE>>
         ELSE stringValue

\* Array.prototype.join(sep) over strings.
RECURSIVE Join(_, _)
Join(strs, sep) ==
    IF strs = <<>> THEN <<>>
    ELSE IF Len(strs) = 1 THEN strs[1]
    ELSE strs[1] \o sep \o Join(Tail(strs), sep)

\* row.map(escapeCSV).join(',')
WriteRow(row) == Join([i \in 1..Len(row) |-> escapeCSV(row[i])], <<COMMA>>)

\* The scan of parseCSVRow from position i (1-based) with the fields
\* finished so far, the insideQuotes flag and the current field buffer.
RECURSIVE ScanRow(_, _, _, _, _)
ScanRow(row, i, result, insideQuotes, currentValue) ==
    IF i > Len(row) THEN Append(result, currentValue)
    ELSE IF row[i] = QUOTE
    THEN IF i + 1 <= Len(row) /\ row[i + 1] = QUOTE
         THEN ScanRow(row, i + 2, result, insideQuotes,
                      Append(currentValue, QUOTE))
         ELSE ScanRow(row, i + 1, result, ~insideQuotes, currentValue)
    ELSE IF row[i] = COMMA /\ ~insideQuotes
    THEN ScanRow(row, i + 1, Append(result, currentValue), insideQuotes, <<>>)
    ELSE ScanRow(row, i + 1, result, insideQuotes, Append(currentValue, row[i]))

parseCSVRow(row) == ScanRow(row, 1, <<>>, FALSE, <<>>)

---------------------------------------------------------------------------
(* JavaScript objects with string keys keep their insertion order, and     *)
(* Object.entries and JSON.stringify follow it: an object is a sequence    *)
(* of [k, v] pairs with distinct keys.  A value kept in localStorage under *)
(* a JSON key is modelled by the structure JSON.parse gives for it.        *)

RECURSIVE ObjIndexFrom(_, _, _)
ObjIndexFrom(obj, k, i) ==
    IF i > Len(obj) THEN 0
    ELSE IF obj[i].k = k THEN i
    ELSE ObjIndexFrom(obj, k, i + 1)

\* The position of key k in obj, 0 when obj has no such property.
ObjIndex(obj, k) == ObjIndexFrom(obj, k, 1)

ObjHas(obj, k) == ObjIndex(obj, k) # 0

ObjGet(obj, k) == obj[ObjIndex(obj, k)].v

\* obj[k] = v
ObjPut(obj, k, v) ==
    IF ObjHas(obj, k)
    THEN [obj EXCEPT ![ObjIndex(obj, k)] = [k |-> k, v |-> v]]
    ELSE Append(obj, [k |-> k, v |-> v])

ObjKeys(obj) == {obj[i].k : i \in 1..Len(obj)}

\* delete history[date] for every date of dates.
RECURSIVE DeleteKeys(_, _)
DeleteKeys(obj, dates) ==
    IF obj = <<>> THEN <<>>
    ELSE (IF Head(obj).k \in dates THEN <<>> ELSE <<Head(obj)>>)
         \o DeleteKeys(Tail(obj), dates)

---------------------------------------------------------------------------
(* localStorage: a function from the keys present to their values.  The    *)
(* raw keys hold a string; the JSON keys hold a structure.                 *)

GOAL_WATER == "goal_water"
INTAKE_WATER == "intake_water"
HISTORY_WATER == "history_water"
GOAL_PROTEIN == "goal_protein"
INTAKE_PROTEIN == "intake_protein"
HISTORY_PROTEIN == "history_protein"
WORKOUT_STATE == "workout_state"
WORKOUT_COUNT == "workout_count"
WORKOUT_HISTORY == "workout_history"
HABITS_DATA == "habits_data"
THEME == "app_theme"
REMINDER == "global_reminder"

\* localStorage with no key in it.
EmptyStore == [k \in {} |-> <<>>]

\* localStorage.getItem(key) of a raw key: the string, or null.
getItem(storage, key) ==
    IF key \in DOMAIN storage THEN Str(storage[key]) ELSE Null

\* JSON.parse(localStorage.getItem(key) || dflt) of a JSON key.
getJSON(storage, key, dflt) ==
    IF key \in DOMAIN storage THEN storage[key] ELSE dflt

\* localStorage.setItem(key, value)
setItem(storage, key, value) ==
    [k \in DOMAIN storage \cup {key} |->
        IF k = key THEN value ELSE storage[k]]

---------------------------------------------------------------------------
(* convertDataToCSV *)

headers == << <<"data_type">>, <<"key">>, <<"value">>, <<"date">>,
              <<"amount">>, <<"timestamp">>, <<"type">>, <<"count">>,
              <<"name">>, <<"color">>, <<"completed">>, <<"order">> >>

\* new Array(headers.length).fill('')
BlankRow == [i \in 1..Len(headers) |-> Str(<<>>)]

\* A row with the given cells set (cells: column number from 0 -> value).
RowOf(cells) ==
    WriteRow([i \in 1..Len(headers) |->
                 IF (i - 1) \in DOMAIN cells THEN cells[i - 1] ELSE BlankRow[i]])

addRow(dataType, key, value) ==
    RowOf(0 :> Str(<<dataType>>) @@ 1 :> Str(<<key>>) @@ 2 :> value)

\* `${date}_${index}` and `${habitIndex}_${date}`
Template(a, b) == a \o <<UNDERSCORE>> \o b

\* The rows of one date of an intake history.
IntakeDateRows(dataType, date, entries) ==
    [index \in 1..Len(entries) |->
        RowOf(0 :> Str(<<dataType>>)
           @@ 1 :> Str(Template(date, NatToString(index - 1)))
           @@ 3 :> Str(date)
           @@ 4 :> entries[index].amount
           @@ 5 :> entries[index].timestamp)]

\* The rows of one intake history (water_history, protein_history).
RECURSIVE IntakeHistoryRows(_, _)
IntakeHistoryRows(dataType, history) ==
    IF history = <<>> THEN <<>>
    ELSE IntakeDateRows(dataType, Head(history).k, Head(history).v)
         \o IntakeHistoryRows(dataType, Tail(history))

WorkoutStateRows(workoutState) ==
    [i \in 1..Len(workoutState) |->
        RowOf(0 :> Str(<<"workout_state">>)
           @@ 1 :> Str(workoutState[i].k)
           @@ 6 :> Str(workoutState[i].k)
           @@ 10 :> workoutState[i].v.completed
           @@ 11 :> workoutState[i].v.order)]

WorkoutCountRows(workoutCount) ==
    [i \in 1..Len(workoutCount) |->
        RowOf(0 :> Str(<<"workout_count">>)
           @@ 1 :> Str(workoutCount[i].k)
           @@ 6 :> Str(workoutCount[i].k)
           @@ 7 :> workoutCount[i].v)]

WorkoutDateRows(date, entries) ==
    [index \in 1..Len(entries) |->
        RowOf(0 :> Str(<<"workout_history">>)
           @@ 1 :> Str(Template(date, NatToString(index - 1)))
           @@ 3 :> Str(date)
           @@ 5 :> entries[index].timestamp
           @@ 6 :> entries[index].type
           @@ 7 :> entries[index].count)]

RECURSIVE WorkoutHistoryRows(_)
WorkoutHistoryRows(workoutHistory) ==
    IF workoutHistory = <<>> THEN <<>>
    ELSE WorkoutDateRows(Head(workoutHistory).k, Head(workoutHistory).v)
         \o WorkoutHistoryRows(Tail(workoutHistory))

\* The rows of habitsData from habit number habitIndex (from 0) on.
RECURSIVE HabitRowsFrom(_, _)
HabitRowsFrom(habitsData, habitIndex) ==
    IF habitIndex >= Len(habitsData) THEN <<>>
    ELSE LET habit == habitsData[habitIndex + 1]
             idx == NatToString(habitIndex)
         IN  << RowOf(0 :> Str(<<"habit">>) @@ 1 :> Str(idx)
                   @@ 8 :> habit.name @@ 9 :> habit.color) >>
             \o [i \in 1..Len(habit.history) |->
                    RowOf(0 :> Str(<<"habit_history">>)
                       @@ 1 :> Str(Template(idx, habit.history[i].k))
                       @@ 2 :> habit.history[i].v
                       @@ 3 :> Str(habit.history[i].k))]
             \o HabitRowsFrom(habitsData, habitIndex + 1)

\* The lines with the settings rows pushed before the workout rows.
ExportRowsSettingsEarly(storage, now) ==
    << Join(headers, <<COMMA>>),
       addRow("meta", "version", Str(<<"2.0">>)),
       addRow("meta", "exportDate", Str(now)),
       addRow("water", "goal", getItem(storage, GOAL_WATER)),
       addRow("water", "intake", getItem(storage, INTAKE_WATER)) >>
    \o IntakeHistoryRows("water_history", getJSON(storage, HISTORY_WATER, <<>>))
    \o << addRow("protein", "goal", getItem(storage, GOAL_PROTEIN)),
          addRow("protein", "intake", getItem(storage, INTAKE_PROTEIN)) >>
    \o IntakeHistoryRows("protein_history",
                         getJSON(storage, HISTORY_PROTEIN, <<>>))
    \o << addRow("settings", "theme", getItem(storage, THEME)),
          addRow("settings", "reminder", getItem(storage, REMINDER)) >>
    \o WorkoutStateRows(getJSON(storage, WORKOUT_STATE, <<>>))
    \o WorkoutCountRows(getJSON(storage, WORKOUT_COUNT, <<>>))
    \o WorkoutHistoryRows(getJSON(storage, WORKOUT_HISTORY, <<>>))
    \o HabitRowsFrom(getJSON(storage, HABITS_DATA, <<>>), 0)

\* The lines convertDataToCSV pushes to rows, in order.
ExportRows(storage, now) ==
    << Join(headers, <<COMMA>>),
       addRow("meta", "version", Str(<<"2.0">>)),
       addRow("meta", "exportDate", Str(now)),
       addRow("water", "goal", getItem(storage, GOAL_WATER)),
       addRow("water", "intake", getItem(storage, INTAKE_WATER)) >>
    \o IntakeHistoryRows("water_history", getJSON(storage, HISTORY_WATER, <<>>))
    \o << addRow("protein", "goal", getItem(storage, GOAL_PROTEIN)),
          addRow("protein", "intake", getItem(storage, INTAKE_PROTEIN)) >>
    \o IntakeHistoryRows("protein_history",
                         getJSON(storage, HISTORY_PROTEIN, <<>>))
    \o WorkoutStateRows(getJSON(storage, WORKOUT_STATE, <<>>))
    \o WorkoutCountRows(getJSON(storage, WORKOUT_COUNT, <<>>))
    \o WorkoutHistoryRows(getJSON(storage, WORKOUT_HISTORY, <<>>))
    \o HabitRowsFrom(getJSON(storage, HABITS_DATA, <<>>), 0)
    \o << addRow("settings", "theme", getItem(storage, THEME)),
          addRow("settings", "reminder", getItem(storage, REMINDER)) >>

\* rows.join('\n')
convertDataToCSV(storage, now) == Join(ExportRows(storage, now), <<LF>>)

---------------------------------------------------------------------------
(* parseCSVData *)

\* The first position from i on where s holds c, 0 when there is none.
RECURSIVE IndexOfFrom(_, _, _)
IndexOfFrom(s, c, i) ==
    IF i > Len(s) THEN 0
    ELSE IF s[i] = c THEN i
    ELSE IndexOfFrom(s, c, i + 1)

\* csvData.split(/\r?\n/): the lines of text from position start on.  The
\* separator is a line feed with the carriage return before it, if any.
RECURSIVE SplitFrom(_, _)
SplitFrom(text, start) ==
    LET lf == IndexOfFrom(text, LF, start) IN
    IF lf = 0 THEN <<SubSeq(text, start, Len(text))>>
    ELSE <<SubSeq(text, start,
                  IF lf > start /\ text[lf - 1] = CR THEN lf - 2 ELSE lf - 1)>>
         \o SplitFrom(text, lf + 1)

SplitLines(text) == SplitFrom(text, 1)

IsWhitespace(c) == c \in {SPACE, CR, LF, "\t"}

\* !rows[i].trim()
IsBlank(line) == \A i \in 1..Len(line) : IsWhitespace(line[i])

\* headerMap[name]: the last column with that header, 0 for undefined.
RECURSIVE HeaderIndexFrom(_, _, _)
HeaderIndexFrom(hdrs, name, i) ==
    IF i = 0 THEN 0
    ELSE IF hdrs[i] = name THEN i
    ELSE HeaderIndexFrom(hdrs, name, i - 1)

headerMap(hdrs, name) == HeaderIndexFrom(hdrs, <<name>>, Len(hdrs))

\* row[headerMap.name]: undefined when the header has no such column or
\* the row is too short.
Cell(hdrs, row, name) ==
    LET i == headerMap(hdrs, name) IN
    IF i = 0 \/ i > Len(row) THEN Undef ELSE Str(row[i])

\* The digits at the start of s, as a number; acc is the value so far.
RECURSIVE DigitsValue(_, _, _)
DigitsValue(s, i, acc) ==
    IF i > Len(s) \/ ~IsDigit(s[i]) THEN acc
    ELSE DigitsValue(s, i + 1, 10 * acc + DigitValue(s[i]))

RECURSIVE SkipWhitespace(_)
SkipWhitespace(s) ==
    IF s # <<>> /\ IsWhitespace(Head(s)) THEN SkipWhitespace(Tail(s)) ELSE s

\* parseInt(value): String(value) without leading white space, read up to
\* the first token that is not a digit; NaN when it starts with no digit.
parseInt(value) ==
    LET s == SkipWhitespace(JSString(value)) IN
    IF s = <<>> \/ ~IsDigit(Head(s)) THEN NaN
    ELSE Num(DigitsValue(s, 1, 0))

\* key.split('_'): the parts of s from position i on.
RECURSIVE SplitUnderscoreFrom(_, _, _)
SplitUnderscoreFrom(s, i, cur) ==
    IF i > Len(s) THEN <<cur>>
    ELSE IF s[i] = UNDERSCORE
    THEN <<cur>> \o SplitUnderscoreFrom(s, i + 1, <<>>)
    ELSE SplitUnderscoreFrom(s, i + 1, Append(cur, s[i]))

SplitUnderscore(s) == SplitUnderscoreFrom(s, 1, <<>>)

\* The importedData object parseCSVData starts from; threw records an
\* exception raised while a row is processed.
InitialImportedData(now) ==
    [version |-> Str(<<"2.0">>), exportDate |-> Str(now),
     water |-> [goal |-> Null, intake |-> Null, history |-> <<>>],
     protein |-> [goal |-> Null, intake |-> Null, history |-> <<>>],
     workout |-> [state |-> <<>>, count |-> <<>>, history |-> <<>>],
     habits |-> [data |-> <<>>],
     settings |-> [theme |-> Null, reminder |-> Null],
     threw |-> ""]

\* if (!history[date]) history[date] = []; history[date].push(entry)
PushEntry(history, date, entry) ==
    LET k == JSString(date) IN
    IF ObjHas(history, k)
    THEN ObjPut(history, k, Append(ObjGet(history, k), entry))
    ELSE ObjPut(history, k, <<entry>>)

\* while (data.length <= index) data.push({ history: {} })
RECURSIVE GrowHabits(_, _)
GrowHabits(data, index) ==
    IF Len(data) <= index
    THEN GrowHabits(Append(data, [name |-> Undef, color |-> Undef,
                                  history |-> <<>>]), index)
    ELSE data

\* Two conditional assignments on key: x.a = value if key is a, x.b = value
\* if key is b.
AssignByKey(obj, key, a, b, value) ==
    [f \in DOMAIN obj |->
        IF (f = a /\ key = Str(<<a>>)) \/ (f = b /\ key = Str(<<b>>))
        THEN value ELSE obj[f]]

\* The body of the row loop for one non-blank row: the switch on data_type.
ProcessRow(d, hdrs, line) ==
    LET row == parseCSVRow(line)
        dataType == Cell(hdrs, row, "data_type")
        key == Cell(hdrs, row, "key")
        value == Cell(hdrs, row, "value")
        IntakeEntry == [amount |-> parseInt(Cell(hdrs, row, "amount")),
                        timestamp |-> Cell(hdrs, row, "timestamp")]
    IN
    CASE dataType = Str(<<"meta">>) ->
           [d EXCEPT !.version = IF key = Str(<<"version">>) THEN value ELSE @,
                     !.exportDate = IF key = Str(<<"exportDate">>) THEN value
                                    ELSE @]
      [] dataType = Str(<<"water">>) ->
           [d EXCEPT !.water = AssignByKey(@, key, "goal", "intake", value)]
      [] dataType = Str(<<"water_history">>) ->
           [d EXCEPT !.water.history =
                PushEntry(@, Cell(hdrs, row, "date"), IntakeEntry)]
      [] dataType = Str(<<"protein">>) ->
           [d EXCEPT !.protein = AssignByKey(@, key, "goal", "intake", value)]
      [] dataType = Str(<<"protein_history">>) ->
           [d EXCEPT !.protein.history =
                PushEntry(@, Cell(hdrs, row, "date"), IntakeEntry)]
      [] dataType = Str(<<"workout_state">>) ->
           [d EXCEPT !.workout.state =
                ObjPut(@, JSString(Cell(hdrs, row, "type")),
                       [completed |->
                            Bool(Cell(hdrs, row, "completed") = Str(<<"true">>)),
                        order |-> parseInt(Cell(hdrs, row, "order"))])]
      [] dataType = Str(<<"workout_count">>) ->
           [d EXCEPT !.workout.count =
                ObjPut(@, JSString(Cell(hdrs, row, "type")),
                       parseInt(Cell(hdrs, row, "count")))]
      [] dataType = Str(<<"workout_history">>) ->
           [d EXCEPT !.workout.history =
                PushEntry(@, Cell(hdrs, row, "date"),
                          [type |-> Cell(hdrs, row, "type"),
                           count |-> parseInt(Cell(hdrs, row, "count")),
                           timestamp |-> Cell(hdrs, row, "timestamp")])]
      [] dataType = Str(<<"habit">>) ->
           LET habitIndex == parseInt(key) IN
           \* data[NaN] is undefined: reading its history throws a TypeError
           IF habitIndex = NaN THEN [d EXCEPT !.threw = "TypeError"]
           ELSE LET grown == GrowHabits(d.habits.data, habitIndex.n) IN
                [d EXCEPT !.habits.data =
                    [grown EXCEPT ![habitIndex.n + 1] =
                        [name |-> Cell(hdrs, row, "name"),
                         color |-> Cell(hdrs, row, "color"),
                         history |-> grown[habitIndex.n + 1].history]]]
      [] dataType = Str(<<"habit_history">>) ->
           \* undefined.split throws a TypeError
           IF key = Undef THEN [d EXCEPT !.threw = "TypeError"]
           ELSE LET parts == SplitUnderscore(key.s)
                    historyDate == IF Len(parts) >= 2 THEN Str(parts[2])
                                   ELSE Undef
                    idx == parseInt(Str(parts[1]))
                IN  \* data[NaN] is undefined: reading its history throws
                    IF idx = NaN THEN [d EXCEPT !.threw = "TypeError"]
                    ELSE LET grown == GrowHabits(d.habits.data, idx.n) IN
                         [d EXCEPT !.habits.data =
                             [grown EXCEPT ![idx.n + 1].history =
                                 ObjPut(@, JSString(historyDate), value)]]
      [] dataType = Str(<<"settings">>) ->
           [d EXCEPT !.settings = AssignByKey(@, key, "theme", "reminder", value)]
      [] OTHER -> d

\* The row loop with "break" where the code has "continue" for a blank row.
RECURSIVE ProcessRowsBreakAtBlank(_, _, _, _)
ProcessRowsBreakAtBlank(d, hdrs, rows, i) ==
    IF i > Len(rows) \/ d.threw # "" THEN d
    ELSE IF IsBlank(rows[i]) THEN d
    ELSE ProcessRowsBreakAtBlank(ProcessRow(d, hdrs, rows[i]), hdrs, rows, i + 1)

\* for (let i = 1; i < rows.length; i++): the loop from row i (1-based
\* position in rows, the header being rows[1]) on.
RECURSIVE ProcessRows(_, _, _, _)
ProcessRows(d, hdrs, rows, i) ==
    IF i > Len(rows) \/ d.threw # "" THEN d
    ELSE IF IsBlank(rows[i]) THEN ProcessRows(d, hdrs, rows, i + 1)
    ELSE ProcessRows(ProcessRow(d, hdrs, rows[i]), hdrs, rows, i + 1)

\* The number as it is, NaN included.
KeepNaN(v) == v

\* JSON.stringify of the numbers in an entry: NaN is written as null.
JSONNumber(v) == IF v = NaN THEN Null ELSE v

\* JSON.stringify of an object: a property whose value is undefined is
\* left out.
RECURSIVE DropUndefined(_)
DropUndefined(obj) ==
    IF obj = <<>> THEN <<>>
    ELSE (IF Head(obj).v = Undef THEN <<>> ELSE <<Head(obj)>>)
         \o DropUndefined(Tail(obj))

StringifyIntakeHistory(history) ==
    [i \in 1..Len(history) |->
        [k |-> history[i].k,
         v |-> [j \in 1..Len(history[i].v) |->
                   [history[i].v[j] EXCEPT !.amount = JSONNumber(@)]]]]

StringifyWorkoutState(state) ==
    [i \in 1..Len(state) |->
        [k |-> state[i].k, v |-> [state[i].v EXCEPT !.order = JSONNumber(@)]]]

StringifyWorkoutCount(count) ==
    [i \in 1..Len(count) |-> [k |-> count[i].k, v |-> JSONNumber(count[i].v)]]

StringifyWorkoutHistory(history) ==
    [i \in 1..Len(history) |->
        [k |-> history[i].k,
         v |-> [j \in 1..Len(history[i].v) |->
                   [history[i].v[j] EXCEPT !.count = JSONNumber(@)]]]]

StringifyHabits(data) ==
    [i \in 1..Len(data) |-> [data[i] EXCEPT !.history = DropUndefined(@)]]

\* parseCSVData(csvData): [ok |-> FALSE, error |-> e] when it throws, else
\* the object it returns, with ok |-> TRUE.
parseCSVData(csvData, now) ==
    LET rows == SplitLines(csvData) IN
    IF Len(rows) < 2
    THEN [ok |-> FALSE, error |-> "Invalid CSV file format"]
    ELSE LET hdrs == parseCSVRow(rows[1])
             d == ProcessRows(InitialImportedData(now), hdrs, rows, 2)
         IN  IF d.threw # "" THEN [ok |-> FALSE, error |-> d.threw]
             ELSE [ok |-> TRUE,
                   version |-> d.version,
                   exportDate |-> d.exportDate,
                   water |-> [d.water EXCEPT
                                 !.history = StringifyIntakeHistory(@)],
                   protein |-> [d.protein EXCEPT
                                   !.history = StringifyIntakeHistory(@)],
                   workout |-> [state |-> StringifyWorkoutState(d.workout.state),
                                count |-> StringifyWorkoutCount(d.workout.count),
                                history |->
                                    StringifyWorkoutHistory(d.workout.history)],
                   habits |-> [data |-> StringifyHabits(d.habits.data)],
                   settings |-> d.settings]

---------------------------------------------------------------------------
(* Streaks.  A DateKey "YYYY-MM-DD" is modelled by its day number; the     *)
(* lexicographic order of the keys is the order of the day numbers.  A     *)
(* Date is its time value in hours since day 0, 00:00 UTC.                 *)

Days == 0..(MaxDay - 1)

\* The zones the browser may run in: a standard offset from UTC in hours,
\* and the day on which daylight saving time starts at 02:00 standard
\* local time (-1: the zone has no daylight saving time in these days).
Zones == [base : {0 - 5, 0, 1}, dst : {0 - 1} \cup Days]

DstStart(zone) == 24 * zone.dst + 2 - zone.base

\* The local offset from UTC in force at time value t.
ZoneOffset(zone, t) ==
    zone.base + (IF zone.dst >= 0 /\ t >= DstStart(zone) THEN 1 ELSE 0)

\* The time value of a local wall-clock time (ECMAScript's UTC(t): a wall
\* time skipped by the change is read with the offset before it).
LocalToUTC(zone, wall) ==
    IF zone.dst < 0 \/ wall - zone.base < DstStart(zone)
    THEN wall - zone.base
    ELSE IF wall - (zone.base + 1) >= DstStart(zone)
    THEN wall - (zone.base + 1)
    ELSE wall - zone.base

\* new Date("YYYY-MM-DD"): a date-only ISO string is read as 00:00 UTC.
NewDate(day) == 24 * day

\* nextDay.setDate(lastDate.getDate() + 1): the same local wall-clock time
\* on the next local calendar day.
SetDateNextDay(zone, t) == LocalToUTC(zone, t + ZoneOffset(zone, t) + 24)

\* Object.entries(history).filter(status === 'done').map(date).sort()
RECURSIVE SortedDoneFrom(_, _)
SortedDoneFrom(history, day) ==
    IF day >= MaxDay THEN <<>>
    ELSE (IF day \in DOMAIN history /\ history[day] = "done"
          THEN <<day>> ELSE <<>>) \o SortedDoneFrom(history, day + 1)

SortedDates(history) == SortedDoneFrom(history, 0)

\* The forEach of calculateStreaks from position i: streaks closed so far
\* and the open streak (<<>> stands for currentStreak = null, else <<s>>).
RECURSIVE StreakScan(_, _, _, _, _)
StreakScan(zone, sortedDates, i, streaks, currentStreak) ==
    IF i > Len(sortedDates)
    THEN streaks \o currentStreak
    ELSE LET date == sortedDates[i]
             currentDate == NewDate(date)
             fresh == [start |-> date, end |-> date, length |-> 1]
         IN  IF currentStreak = <<>>
             THEN StreakScan(zone, sortedDates, i + 1, streaks, <<fresh>>)
             ELSE LET cur == currentStreak[1]
                      lastDate == NewDate(cur.end)
                      nextDay == SetDateNextDay(zone, lastDate)
                  IN  IF currentDate = nextDay
                      THEN StreakScan(zone, sortedDates, i + 1, streaks,
                               <<[cur EXCEPT !.end = date,
                                             !.length = cur.length + 1]>>)
                      ELSE StreakScan(zone, sortedDates, i + 1,
                               Append(streaks, cur), <<fresh>>)

\* Array.prototype.sort((a, b) => b.length - a.length): a stable sort.
RECURSIVE InsertByLength(_, _)
InsertByLength(sorted, s) ==
    IF sorted = <<>> THEN <<s>>
    ELSE IF Head(sorted).length >= s.length
    THEN <<Head(sorted)>> \o InsertByLength(Tail(sorted), s)
    ELSE <<s>> \o sorted

RECURSIVE SortByLengthDesc(_)
SortByLengthDesc(streaks) ==
    IF streaks = <<>> THEN <<>>
    ELSE InsertByLength(SortByLengthDesc(SubSeq(streaks, 1, Len(streaks) - 1)),
                        streaks[Len(streaks)])

calculateStreaks(zone, history) ==
    SortByLengthDesc(StreakScan(zone, SortedDates(history), 1, <<>>, <<>>))

Histories == UNION {[D -> {"done", "fail"}] : D \in SUBSET Days}

StrInit ==
    /\ strHistory \in Histories
    /\ strZone \in Zones
    /\ strResult = <<>>
    /\ strPc = "start"

StrCalculate ==
    /\ strPc = "start"
    /\ strResult' = calculateStreaks(strZone, strHistory)
    /\ strPc' = "done"
    /\ UNCHANGED <<strHistory, strZone>>
    /\ UNCHANGED notStr

StrNext == StrCalculate

InitStreak == RowIdle /\ StrInit /\ CdIdle /\ ImIdle /\ EscIdle /\ WkIdle /\ HsIdle /\ AnIdle
    /\ RmIdle /\ LpIdle

SpecStreak == InitStreak /\ [][StrNext]_vars

IsDone(history, day) == day \in DOMAIN history /\ history[day] = "done"

\* The maximal runs of consecutive done days, as <<first day, last day>>.
MaximalRuns(history) ==
    {r \in Days \X Days :
        /\ r[1] <= r[2]
        /\ \A d \in r[1]..r[2] : IsDone(history, d)
        /\ ~IsDone(history, r[1] - 1)
        /\ ~IsDone(history, r[2] + 1)}

\* C4: calculateStreaks returns exactly the maximal runs of consecutive
\* done days, each once with its start, end and length, ordered by length
\* descending (the empty map gives the empty list).
StreaksAreMaximalRuns ==
    strPc = "done" =>
        /\ Len(strResult) = Cardinality(MaximalRuns(strHistory))
        /\ {<<strResult[i].start, strResult[i].end>> : i \in 1..Len(strResult)}
              = MaximalRuns(strHistory)
        /\ \A i \in 1..Len(strResult) :
              strResult[i].length = strResult[i].end - strResult[i].start + 1
        /\ \A i \in 1..(Len(strResult) - 1) :
              strResult[i].length >= strResult[i + 1].length

\* The same statement in a zone without daylight saving time.
StreaksAreMaximalRunsNoDst == strZone.dst < 0 => StreaksAreMaximalRuns

---------------------------------------------------------------------------
(* The tokenizer on its own: a field list is written, then parsed. *)

RowChars == {"a", COMMA, QUOTE}

RECURSIVE StringsUpTo(_, _)
StringsUpTo(chars, n) ==
    IF n = 0 THEN {<<>>}
    ELSE LET shorter == StringsUpTo(chars, n - 1) IN
         shorter \cup {Append(s, c) : s \in shorter, c \in chars}

RowStrings == StringsUpTo(RowChars, MaxFieldLen)

RowFieldLists == UNION {[1..n -> RowStrings] : n \in 1..MaxFields}

RowInit ==
    /\ rowFields \in RowFieldLists
    /\ rowLine = <<>>
    /\ rowParsed = <<>>
    /\ rowPc = "start"

RowWrite ==
    /\ rowPc = "start"
    /\ rowLine' = WriteRow([i \in 1..Len(rowFields) |-> Str(rowFields[i])])
    /\ rowPc' = "written"
    /\ UNCHANGED <<rowFields, rowParsed>>
    /\ UNCHANGED notRow

RowParse ==
    /\ rowPc = "written"
    /\ rowParsed' = parseCSVRow(rowLine)
    /\ rowPc' = "parsed"
    /\ UNCHANGED <<rowFields, rowLine>>
    /\ UNCHANGED notRow

RowNext == RowWrite \/ RowParse

InitRow == RowInit /\ StrIdle /\ CdIdle /\ ImIdle /\ EscIdle /\ WkIdle /\ HsIdle /\ AnIdle
    /\ RmIdle /\ LpIdle

SpecRow == InitRow /\ [][RowNext]_vars

\* C3: for every field list F without a newline, parseCSVRow of the
\* comma-join of the escaped fields is F again.
RowRoundTrip == rowPc = "parsed" => rowParsed = rowFields

---------------------------------------------------------------------------
(* The codec: a store is exported, the text is edited as a user or another *)
(* program may edit a CSV file, and the file is decoded.                   *)

ExportTime == <<"2024-03-11T08:00:00.000Z">>
ImportTime == <<"2024-03-12T09:30:00.000Z">>
Today == <<"2024-03-11">>
LAST_RESET_WORKOUT == "lastResetDate_workout"

DateKeys == << <<"2024-03-09">>, <<"2024-03-10">> >>

\* An intake entry as the trackers store it.
IntakeEntryOf(date, n) ==
    [amount |-> Num(n), timestamp |-> Str(date \o <<"T0">> \o NatToString(n))]

\* A history with counts[i] entries on date key i (no key for no entry).
IntakeHistoryOf(counts) ==
    LET All == [i \in 1..Len(counts) |->
                   [k |-> DateKeys[i],
                    v |-> [n \in 1..counts[i] |-> IntakeEntryOf(DateKeys[i], n)]]]
        NonEmpty(p) == p.v # <<>>
    IN  SelectSeq(All, NonEmpty)

\* workoutTypes, cut to the first two of the seven types.
workoutTypes == << <<"Chest">>, <<"Back">> >>

WorkoutEntryOf(type, count, date) ==
    [type |-> Str(type), count |-> Num(count),
     timestamp |-> Str(date \o <<"T1">> \o NatToString(count))]

\* The water and protein keys and the settings: nothing stored, or goals,
\* intakes, histories, a theme and a reminder interval.
FullIntake ==
    (GOAL_WATER :> <<"8">>) @@ (INTAKE_WATER :> <<"3">>)
      @@ (HISTORY_WATER :> IntakeHistoryOf(<<MaxEntries, 1>>))
      @@ (GOAL_PROTEIN :> <<"9">>)
      @@ (HISTORY_PROTEIN :> IntakeHistoryOf(<<0, 1>>))
      @@ (THEME :> <<"dark-theme">>) @@ (REMINDER :> <<"3", "0">>)

IntakeStores == {EmptyStore, FullIntake}

\* The workout keys: nothing stored, or Chest done twice and Back not yet,
\* with the history of the two Chest workouts.
FullWorkout ==
    (WORKOUT_STATE :>
        << [k |-> workoutTypes[1],
            v |-> [completed |-> Bool(TRUE), order |-> Num(0)]],
           [k |-> workoutTypes[2],
            v |-> [completed |-> Bool(FALSE), order |-> Num(1)]] >>)
      @@ (WORKOUT_COUNT :>
            << [k |-> workoutTypes[1], v |-> Num(2)],
               [k |-> workoutTypes[2], v |-> Num(0)] >>)
      @@ (WORKOUT_HISTORY :>
            << [k |-> DateKeys[2],
                v |-> << WorkoutEntryOf(workoutTypes[1], 1, DateKeys[2]),
                         WorkoutEntryOf(workoutTypes[1], 2, DateKeys[2]) >>] >>)

WorkoutStores == {EmptyStore, FullWorkout}

\* The habits a user may keep: the name is what the user typed (a word, a
\* name with a comma and a quote in it, a lone double quote).
HabitPool ==
    << [name |-> Str(<<"Run">>), color |-> Str(<<"default">>),
        history |-> <<>>],
       [name |-> Str(<<"Read">>), color |-> Str(<<"green">>),
        history |-> << [k |-> DateKeys[1], v |-> Str(<<"done">>)],
                       [k |-> DateKeys[2], v |-> Str(<<"fail">>)] >>],
       [name |-> Str(<<"a", COMMA, "b", QUOTE, "c">>), color |-> Str(<<"blue">>),
        history |-> << [k |-> DateKeys[2], v |-> Str(<<"done">>)] >>],
       [name |-> Str(<<QUOTE>>), color |-> Str(<<"red">>),
        history |-> << [k |-> DateKeys[1], v |-> Str(<<"done">>)] >>] >>

\* The habit lists: up to MaxHabits habits of the pool, in the pool's order.
HabitLists ==
    {[i \in 1..Len(pick) |-> HabitPool[pick[i]]] :
        pick \in {q \in UNION {[1..n -> 1..Len(HabitPool)] : n \in 1..MaxHabits} :
                     \A i \in 1..(Len(q) - 1) : q[i] < q[i + 1]}}

HabitStores == {EmptyStore} \cup {HABITS_DATA :> l : l \in HabitLists}

CodecStores ==
    {a @@ b @@ c : a \in IntakeStores, b \in WorkoutStores, c \in HabitStores}

CdInit ==
    /\ cdStore \in CodecStores
    /\ cdCsv = <<>>
    /\ cdBase = <<>>
    /\ cdEdit = "none"
    /\ cdJunk = FALSE
    /\ cdDecoded = [ok |-> FALSE, error |-> ""]
    /\ cdPc = "store"

\* The first start of the application on a day: the WorkoutTracker
\* constructor loads workout_history and initializeTracker runs
\* checkAndResetDailyWorkouts, which calls preserveTodaysWorkoutData.
checkAndResetDailyWorkouts(storage, currentDate) ==
    IF LAST_RESET_WORKOUT \in DOMAIN storage
       /\ storage[LAST_RESET_WORKOUT] = currentDate
    THEN storage
    ELSE LET marked == setItem(storage, LAST_RESET_WORKOUT, currentDate)
             workoutHistory == getJSON(storage, WORKOUT_HISTORY, <<>>)
         IN  IF ObjHas(workoutHistory, currentDate) THEN marked
             ELSE setItem(marked, WORKOUT_HISTORY,
                          ObjPut(workoutHistory, currentDate, <<>>))

CdStartApp ==
    /\ cdPc = "store"
    /\ cdStore' = checkAndResetDailyWorkouts(cdStore, Today)
    /\ cdStore' # cdStore
    /\ UNCHANGED <<cdCsv, cdBase, cdEdit, cdJunk, cdDecoded, cdPc>>
    /\ UNCHANGED notCd

\* exportData: the file holds convertDataToCSV().
CdExport ==
    /\ cdPc = "store"
    /\ cdCsv' = convertDataToCSV(cdStore, ExportTime)
    /\ cdBase' = cdCsv'
    /\ cdPc' = "exported"
    /\ UNCHANGED <<cdStore, cdEdit, cdJunk, cdDecoded>>
    /\ UNCHANGED notCd

IsHabitLine(line) ==
    LET row == parseCSVRow(line) IN
    row[1] = <<"habit">> \/ row[1] = <<"habit_history">>

\* The positions in lines of the habit and habit_history rows, in order.
HabitLinePositions(lines) ==
    LET IsPos(i) == IsHabitLine(lines[i]) IN
    SelectSeq([i \in 1..Len(lines) |-> i], IsPos)

\* The position of x in the sequence of numbers seq, 0 when it is not there.
PositionIn(seq, x) ==
    IF \E j \in 1..Len(seq) : seq[j] = x
    THEN CHOOSE j \in 1..Len(seq) : seq[j] = x
    ELSE 0

\* lines with the lines at the positions pos rearranged by perm.
PermuteAt(lines, pos, perm) ==
    [i \in 1..Len(lines) |->
        IF PositionIn(pos, i) = 0 THEN lines[i]
        ELSE lines[pos[perm[PositionIn(pos, i)]]]]

\* The habit and habit_history rows arrive in another order.
CdReorderHabitRows ==
    /\ cdPc = "exported"
    /\ cdEdit = "none"
    /\ ~cdJunk
    /\ \E lines \in {SplitLines(cdCsv)} :
       \E pos \in {HabitLinePositions(lines)} :
          /\ Len(pos) >= 2
          /\ Len(pos) <= MaxReorderRows
          /\ \E perm \in Permutations(1..Len(pos)) :
               /\ perm # [i \in 1..Len(pos) |-> i]
               /\ cdCsv' = Join(PermuteAt(lines, pos, perm), <<LF>>)
    /\ cdBase' = cdCsv'
    /\ cdEdit' = "reorder"
    /\ UNCHANGED <<cdStore, cdJunk, cdDecoded, cdPc>>
    /\ UNCHANGED notCd

\* What may follow the header line of a file without data rows: nothing, a
\* line terminator, blank lines.
HeaderTails ==
    {<<>>, <<LF>>, <<CR, LF>>, <<LF, LF>>, <<LF, SPACE, LF>>}

\* The texts without a data row: the empty text, and the header line with
\* one of the tails.
NoDataTexts(header) == {<<>>} \cup {header \o tail : tail \in HeaderTails}

\* Every data row is cut from the file.
CdCutToHeader ==
    /\ cdPc = "exported"
    /\ cdEdit = "none"
    /\ ~cdJunk
    /\ cdCsv' \in NoDataTexts(SplitLines(cdCsv)[1])
    /\ cdBase' = cdCsv'
    /\ cdEdit' = "cut"
    /\ UNCHANGED <<cdStore, cdJunk, cdDecoded, cdPc>>
    /\ UNCHANGED notCd

RequiredColumns == {<<"data_type">>, <<"key">>, <<"value">>, <<"date">>}

\* text with the column name taken out of its header line.
DropColumn(text, name) ==
    LET Keep(h) == h # name IN
    Join(<<Join(SelectSeq(headers, Keep), <<COMMA>>)>> \o Tail(SplitLines(text)),
         <<LF>>)

\* A column name is missing from the header line.
CdDropColumn ==
    /\ cdPc = "exported"
    /\ cdEdit = "none"
    /\ ~cdJunk
    /\ \E name \in RequiredColumns : cdCsv' = DropColumn(cdCsv, name)
    /\ cdBase' = cdCsv'
    /\ cdEdit' = "drop"
    /\ UNCHANGED <<cdStore, cdJunk, cdDecoded, cdPc>>
    /\ UNCHANGED notCd

\* The column (numbered from 0) of the number a row of the family carries:
\* amount, order or count; -1 for a family without one.
NumberColumn(family) ==
    CASE family \in {<<"water_history">>, <<"protein_history">>} -> 4
      [] family = <<"workout_state">> -> 11
      [] family \in {<<"workout_count">>, <<"workout_history">>} -> 7
      [] OTHER -> 0 - 1

\* Texts found in place of a number: no digit at the start, nothing at
\* all, digits followed by a letter.
BadNumbers == {<<"abc">>, <<"x", "1">>, <<>>, <<"7", "x">>}

\* line with the cell of column col (from 0) replaced by text.
WithCell(line, col, text) ==
    LET row == parseCSVRow(line) IN
    WriteRow([c \in 1..Len(row) |->
                 IF c = col + 1 THEN Str(text) ELSE Str(row[c])])

\* The amount, count or order cell of one data row holds a text that is
\* not a number.
CdMalformNumber ==
    /\ cdPc = "exported"
    /\ cdEdit = "none"
    /\ ~cdJunk
    /\ \E lines \in {SplitLines(cdCsv)} :
       \E i \in 2..Len(lines), bad \in BadNumbers :
          /\ NumberColumn(parseCSVRow(lines[i])[1]) >= 0
          /\ cdCsv' = Join([lines EXCEPT ![i] =
                               WithCell(@, NumberColumn(parseCSVRow(@)[1]), bad)],
                           <<LF>>)
    /\ cdEdit' = "malform"
    /\ UNCHANGED <<cdStore, cdBase, cdJunk, cdDecoded, cdPc>>
    /\ UNCHANGED notCd

\* Two neighbouring data rows arrive in the other order (every permutation
\* of the rows is a sequence of such swaps).
CdSwapRows ==
    /\ cdPc = "exported"
    /\ cdEdit = "none"
    /\ ~cdJunk
    /\ \E lines \in {SplitLines(cdCsv)} :
       \E i \in 2..(Len(lines) - 1) :
          /\ lines[i] # lines[i + 1]
          /\ cdCsv' = Join([lines EXCEPT ![i] = lines[i + 1],
                                         ![i + 1] = lines[i]], <<LF>>)
    /\ cdEdit' = "swap"
    /\ UNCHANGED <<cdStore, cdBase, cdJunk, cdDecoded, cdPc>>
    /\ UNCHANGED notCd

\* Blank lines, and rows whose data_type the decoder does not know.
JunkLines ==
    { <<>>, <<SPACE>>, <<SPACE, CR>>,
      <<"note">>,
      <<"note", COMMA, "goal", COMMA, "7">>,
      <<"backup", COMMA, "0", UNDERSCORE, "x", COMMA, "done", COMMA,
        "2024-03-09", COMMA, "7">> }

\* A blank line or a row of unknown type is inserted after the header.
CdInsertJunk ==
    /\ cdPc = "exported"
    /\ cdEdit \in {"none", "cut"}
    /\ ~cdJunk
    /\ cdCsv # <<>>
    /\ LET lines == SplitLines(cdCsv) IN
       \E at \in 1..Len(lines), junk \in JunkLines :
          cdCsv' = Join(SubSeq(lines, 1, at) \o <<junk>>
                        \o SubSeq(lines, at + 1, Len(lines)), <<LF>>)
    /\ cdJunk' = TRUE
    /\ UNCHANGED <<cdStore, cdBase, cdEdit, cdDecoded, cdPc>>
    /\ UNCHANGED notCd

\* The file is read by parseCSVData (as importData does first).
CdDecode ==
    /\ cdPc = "exported"
    /\ cdDecoded' = parseCSVData(cdCsv, ImportTime)
    /\ cdPc' = "decoded"
    /\ UNCHANGED <<cdStore, cdCsv, cdBase, cdEdit, cdJunk>>
    /\ UNCHANGED notCd

CdNext ==
    \/ CdStartApp
    \/ CdExport
    \/ CdReorderHabitRows
    \/ CdCutToHeader
    \/ CdDropColumn
    \/ CdInsertJunk
    \/ CdMalformNumber
    \/ CdSwapRows
    \/ CdDecode

\* The codec on its own: the tokenizer and streak variables stay idle.
InitCodec == RowIdle /\ StrIdle /\ CdInit /\ ImIdle /\ EscIdle /\ WkIdle /\ HsIdle /\ AnIdle
    /\ RmIdle /\ LpIdle

SpecCodec == InitCodec /\ [][CdNext]_vars


---------------------------------------------------------------------------
(* Properties of the codec *)

FormatError == [ok |-> FALSE, error |-> "Invalid CSV file format"]

\* Two objects hold the same keys with the same values.
SameMap(a, b) ==
    /\ ObjKeys(a) = ObjKeys(b)
    /\ \A k \in ObjKeys(a) : ObjGet(a, k) = ObjGet(b, k)

\* Two habit lists hold, index by index, the same date-to-status map.
SameHabitHistories(a, b) ==
    /\ Len(a) = Len(b)
    /\ \A i \in 1..Len(a) : SameMap(a[i].history, b[i].history)

\* The decoded snapshot holds the histories of the store it was exported
\* from.
HistoriesKept(storage, decoded) ==
    /\ SameMap(getJSON(storage, HISTORY_WATER, <<>>), decoded.water.history)
    /\ SameMap(getJSON(storage, HISTORY_PROTEIN, <<>>), decoded.protein.history)
    /\ SameMap(getJSON(storage, WORKOUT_HISTORY, <<>>), decoded.workout.history)
    /\ SameHabitHistories(getJSON(storage, HABITS_DATA, <<>>),
                          decoded.habits.data)

\* C2: decoding the text exported from a store gives every history of the
\* store back: for water, protein and workout the same date keys with the
\* same list of entries per date, for every habit index the same
\* date-to-status map.
HistoryRoundTrip ==
    (cdPc = "decoded" /\ cdEdit = "none" /\ ~cdJunk)
        => (cdDecoded.ok /\ HistoriesKept(cdStore, cdDecoded))

\* The histories come back whenever no date of the store holds an empty
\* list of workouts.
NoEmptyDate(history) == \A i \in 1..Len(history) : history[i].v # <<>>

HistoryRoundTripNoEmptyDate ==
    (cdPc = "decoded" /\ cdEdit = "none" /\ ~cdJunk
       /\ NoEmptyDate(getJSON(cdStore, WORKOUT_HISTORY, <<>>)))
        => (cdDecoded.ok /\ HistoriesKept(cdStore, cdDecoded))

\* Position by position the same name, color and history.
SameHabits(a, b) ==
    /\ Len(a) = Len(b)
    /\ \A i \in 1..Len(a) :
          /\ a[i].name = b[i].name
          /\ a[i].color = b[i].color
          /\ SameMap(a[i].history, b[i].history)

\* C7: in whatever order the habit and habit_history rows arrive, position
\* i of the decoded habit list holds the name, the color and the whole
\* history of the habit exported with index i.
HabitsKeptInAnyOrder ==
    (cdPc = "decoded" /\ cdEdit = "reorder")
        => (cdDecoded.ok
            /\ SameHabits(getJSON(cdStore, HABITS_DATA, <<>>),
                          cdDecoded.habits.data))

\* A name made of double quotes only.
OnlyQuotes(name) == name.s # <<>> /\ \A i \in 1..Len(name.s) : name.s[i] = QUOTE

\* The habits come back in any order of the rows when no name is made of
\* double quotes only.
HabitsKeptInAnyOrderNoQuoteName ==
    (cdPc = "decoded" /\ cdEdit = "reorder"
       /\ \A i \in 1..Len(getJSON(cdStore, HABITS_DATA, <<>>)) :
             ~OnlyQuotes(getJSON(cdStore, HABITS_DATA, <<>>)[i].name))
        => (cdDecoded.ok
            /\ SameHabits(getJSON(cdStore, HABITS_DATA, <<>>),
                          cdDecoded.habits.data))

\* C8: decoding a text without a data row (the empty text, the header
\* alone, the header followed only by a line terminator or by blank lines)
\* raises the format error and returns no snapshot.
NoDataRowIsFormatError ==
    (cdPc = "decoded" /\ cdEdit = "cut" /\ ~cdJunk) => cdDecoded = FormatError

\* C9: decoding a text whose header lacks a required column (data_type, key,
\* value, date) raises the format error and returns no snapshot.
MissingColumnIsFormatError ==
    (cdPc = "decoded" /\ cdEdit = "drop") => cdDecoded = FormatError

\* C10 as stated: for every text, the text with a blank line or a row of
\* unknown type inserted after the header decodes to what the text without
\* it decodes to.
JunkHasNoEffectOnAnyText ==
    (cdPc = "decoded" /\ cdJunk) => cdDecoded = parseCSVData(cdBase, ImportTime)

\* C10: for every text that decodes to a snapshot, the text with a blank
\* line or a row of unknown type inserted after the header decodes, without
\* an error, to the same snapshot.
JunkHasNoEffect ==
    (cdPc = "decoded" /\ cdJunk /\ parseCSVData(cdBase, ImportTime).ok)
        => cdDecoded = parseCSVData(cdBase, ImportTime)

\* A text with habits, workouts and intakes in it was decoded with a line
\* inserted.
JunkDecoded ==
    /\ cdPc = "decoded"
    /\ cdJunk
    /\ cdEdit = "none"
    /\ cdDecoded.ok
    /\ Len(cdDecoded.habits.data) = 2
    /\ cdDecoded.water.history # <<>>
    /\ cdDecoded.workout.history # <<>>

---------------------------------------------------------------------------
(* importData: the handler that runs when the chosen file has been read.   *)
(* The file passed the size and type tests before it was read.             *)

availableSpace == 5 * 1024 * 1024

\* The size test that lets every payload through.
NeverTooLarge(importSize) == FALSE

\* importSize > availableSpace * 0.9
TooLarge(importSize) == importSize * 10 > availableSpace * 9

\* A value in the condition of an if: null, undefined, NaN, '', false and 0
\* do not pass.
Truthy(v) ==
    ~(v = Undef \/ v = Null \/ v = NaN \/ v = Str(<<>>) \/ v = Bool(FALSE)
      \/ v = Num(0))

\* The twelve guarded setItem calls of the try block, in order: the key,
\* the value of importedData written to it, and whether the value is the
\* text JSON.stringify gave for an object (a text that is never empty).
ImportEntries(d) ==
    << [key |-> GOAL_WATER, value |-> d.water.goal, json |-> FALSE],
       [key |-> INTAKE_WATER, value |-> d.water.intake, json |-> FALSE],
       [key |-> HISTORY_WATER, value |-> d.water.history, json |-> TRUE],
       [key |-> GOAL_PROTEIN, value |-> d.protein.goal, json |-> FALSE],
       [key |-> INTAKE_PROTEIN, value |-> d.protein.intake, json |-> FALSE],
       [key |-> HISTORY_PROTEIN, value |-> d.protein.history, json |-> TRUE],
       [key |-> WORKOUT_STATE, value |-> d.workout.state, json |-> TRUE],
       [key |-> WORKOUT_COUNT, value |-> d.workout.count, json |-> TRUE],
       [key |-> WORKOUT_HISTORY, value |-> d.workout.history, json |-> TRUE],
       [key |-> HABITS_DATA, value |-> d.habits.data, json |-> TRUE],
       [key |-> THEME, value |-> d.settings.theme, json |-> FALSE],
       [key |-> REMINDER, value |-> d.settings.reminder, json |-> FALSE] >>

\* if (value) localStorage.setItem(key, value): whether the guard passes
\* and what is stored.
GuardPasses(e) == e.json \/ Truthy(e.value)

StoredValue(e) == IF e.json THEN e.value ELSE JSString(e.value)

\* The try block from entry i on, after calls setItem calls; the setItem
\* call number failAt throws and leaves the store as it is.
RECURSIVE ApplyWrites(_, _, _, _, _)
ApplyWrites(storage, entries, i, calls, failAt) ==
    IF i > Len(entries) THEN [store |-> storage, threw |-> FALSE]
    ELSE IF ~GuardPasses(entries[i])
    THEN ApplyWrites(storage, entries, i + 1, calls, failAt)
    ELSE IF calls + 1 = failAt THEN [store |-> storage, threw |-> TRUE]
    ELSE ApplyWrites(setItem(storage, entries[i].key, StoredValue(entries[i])),
                     entries, i + 1, calls + 1, failAt)

\* What is left of the store when the rollback does not clear it.
keepAll(storage) == storage

\* localStorage.clear()
clear(storage) == EmptyStore

\* Object.keys(backup).forEach(key => localStorage.setItem(key, backup[key]))
restoreBackup(storage, backup) ==
    [k \in DOMAIN storage \cup DOMAIN backup |->
        IF k \in DOMAIN backup THEN backup[k] ELSE storage[k]]

\* reader.onload: the store the handler leaves and how it ended.  The
\* object parseCSVData returns is never null, so the test of line 484
\* always passes.
importOnload(storage, csvData, now, importSize, answer, failAt) ==
    LET importedData == parseCSVData(csvData, now) IN
    IF ~importedData.ok THEN [store |-> storage, outcome |-> "error"]
    ELSE IF TooLarge(importSize) THEN [store |-> storage, outcome |-> "error"]
    ELSE IF ~answer THEN [store |-> storage, outcome |-> "declined"]
    ELSE LET backup == storage
             written == ApplyWrites(storage, ImportEntries(importedData), 1, 0,
                                    failAt)
         IN  IF written.threw
             THEN [store |-> restoreBackup(clear(written.store), backup),
                   outcome |-> "restored"]
             ELSE [store |-> written.store, outcome |-> "imported"]

\* The stores an import may find: nothing stored, a user's goals and theme
\* only, every key stored, and every key stored after the day's first start
\* of the application.
SomeGoals ==
    (GOAL_WATER :> <<"5">>) @@ (INTAKE_PROTEIN :> <<"4">>)
      @@ (THEME :> <<"light-theme">>)

FullStore ==
    FullIntake @@ FullWorkout @@ (HABITS_DATA :> <<HabitPool[1], HabitPool[2]>>)

ImStores ==
    {EmptyStore, SomeGoals, FullStore, checkAndResetDailyWorkouts(FullStore, Today)}

\* The files: the exports of these stores, the empty text, a header alone,
\* and an export whose header lost the key column.
ImFiles ==
    {convertDataToCSV(st, ExportTime) : st \in ImStores}
      \cup {<<>>, Join(headers, <<COMMA>>),
            DropColumn(convertDataToCSV(FullStore, ExportTime), <<"key">>)}

\* The length of JSON.stringify(importedData) grows with the text of the
\* file; the texts of the model are short, so the length is drawn from the
\* values around the limit.
SizeLimit == (availableSpace * 9) \div 10

ImSizes == {SizeLimit - 1, SizeLimit, SizeLimit + 1}

ImInit ==
    /\ imStore \in ImStores
    /\ imBefore = <<>>
    /\ imFile = <<>>
    /\ imSize = 0
    /\ imAnswer = FALSE
    /\ imFailAt = 0
    /\ imOutcome = "none"
    /\ imPc = "ready"

\* The user picks a file and answers the confirmation; a setItem call of
\* the import may throw.
ImImport ==
    /\ imPc = "ready"
    /\ \E csv \in ImFiles, size \in ImSizes, answer \in BOOLEAN,
          failAt \in 0..Len(ImportEntries(InitialImportedData(ImportTime))) :
         /\ imFile' = csv
         /\ imSize' = size
         /\ imAnswer' = answer
         /\ imFailAt' = failAt
         /\ \E r \in {importOnload(imStore, csv, ImportTime, size, answer,
                                   failAt)} :
              /\ imStore' = r.store
              /\ imOutcome' = r.outcome
    /\ imBefore' = imStore
    /\ imPc' = "done"
    /\ UNCHANGED notIm

ImNext == ImImport

InitImport == RowIdle /\ StrIdle /\ CdIdle /\ ImInit /\ EscIdle /\ WkIdle /\ HsIdle /\ AnIdle
    /\ RmIdle /\ LpIdle

SpecImport == InitImport /\ [][ImNext]_vars

\* C1: when a setItem call of a confirmed import throws, the store holds,
\* when importData finishes, exactly the keys and values it held when the
\* import began, whichever call was the one that threw.
RollbackRestoresStore ==
    (imPc = "done" /\ imOutcome = "restored") => imStore = imBefore

\* The third setItem call threw after the first one had replaced the goal
\* of a store with other keys in it.
RolledBackAtThirdWrite ==
    /\ imPc = "done"
    /\ imOutcome = "restored"
    /\ imFailAt = 3
    /\ GOAL_WATER \in DOMAIN imBefore
    /\ parseCSVData(imFile, ImportTime).water.goal
          \notin {Null, Str(<<>>), Str(imBefore[GOAL_WATER])}
    /\ HISTORY_WATER \notin DOMAIN imBefore

\* The tracked key of entry e holds in storage the value decoded from the
\* file: the decoded text, or nothing when the decoded value is empty.
HoldsDecoded(storage, e) ==
    IF GuardPasses(e)
    THEN e.key \in DOMAIN storage /\ storage[e.key] = StoredValue(e)
    ELSE e.key \notin DOMAIN storage \/ storage[e.key] = <<>>

\* C5: after an import that ends without a write error every tracked key
\* holds the value decoded from the file; no tracked key keeps the value it
\* had before, also when the file's value for the key is empty.
ImportReplacesEveryKey ==
    (imPc = "done" /\ imOutcome = "imported")
        => \A i \in 1..Len(ImportEntries(parseCSVData(imFile, ImportTime))) :
              HoldsDecoded(imStore, ImportEntries(parseCSVData(imFile, ImportTime))[i])

\* After an import that ends without a write error every tracked key whose
\* decoded value is not empty holds that value.
ImportWritesNonEmptyValues ==
    (imPc = "done" /\ imOutcome = "imported")
        => \A i \in 1..Len(ImportEntries(parseCSVData(imFile, ImportTime))) :
              GuardPasses(ImportEntries(parseCSVData(imFile, ImportTime))[i])
                => HoldsDecoded(imStore,
                                ImportEntries(parseCSVData(imFile, ImportTime))[i])

\* C6: when decoding the file raises an error, when the payload is larger
\* than nine tenths of the assumed capacity, or when the user declines,
\* the store after importData is the store before it.
AbortedImportWritesNothing ==
    (imPc = "done"
       /\ (~parseCSVData(imFile, ImportTime).ok
           \/ imSize > SizeLimit
           \/ ~imAnswer))
        => imStore = imBefore

\* A confirmed import of a file that decodes and would change the store
\* was refused for its size.
RefusedForSize ==
    /\ imPc = "done"
    /\ imSize > SizeLimit
    /\ imAnswer
    /\ imFailAt = 0
    /\ parseCSVData(imFile, ImportTime).ok
    /\ imOutcome = "error"
    /\ importOnload(imBefore, imFile, ImportTime, SizeLimit, TRUE, 0).store
          # imBefore

---------------------------------------------------------------------------
(* Properties of the exported text *)

\* The columns (numbered from 0) the rows of a family set.
UsedColumns(family) ==
    CASE family \in {<<"meta">>, <<"water">>, <<"protein">>, <<"settings">>}
           -> {0, 1, 2}
      [] family \in {<<"water_history">>, <<"protein_history">>}
           -> {0, 1, 3, 4, 5}
      [] family = <<"workout_state">> -> {0, 1, 6, 10, 11}
      [] family = <<"workout_count">> -> {0, 1, 6, 7}
      [] family = <<"workout_history">> -> {0, 1, 3, 5, 6, 7}
      [] family = <<"habit">> -> {0, 1, 8, 9}
      [] family = <<"habit_history">> -> {0, 1, 2, 3}
      [] OTHER -> {}

\* The line parses into as many fields as there are headers, and the
\* columns its family does not use are empty.
WellFormedLine(line) ==
    LET row == parseCSVRow(line) IN
    /\ Len(row) = Len(headers)
    /\ \A col \in 0..(Len(headers) - 1) :
          col \notin UsedColumns(row[1]) => row[col + 1] = <<>>

\* C11: every line of the exported text, the header included, parses with
\* parseCSVRow into exactly 12 fields, whatever the store holds, and the
\* columns a row family does not use are the empty string.
ExportedLinesHaveTwelveFields ==
    (cdPc = "exported" /\ cdEdit = "none" /\ ~cdJunk)
        => /\ parseCSVRow(SplitLines(cdCsv)[1]) = headers
           /\ \A i \in 2..Len(SplitLines(cdCsv)) :
                 WellFormedLine(SplitLines(cdCsv)[i])

\* A store whose habit names hold a comma and double quotes was exported.
ExportedQuotedNames ==
    /\ cdPc = "exported"
    /\ cdEdit = "none"
    /\ ~cdJunk
    /\ HABITS_DATA \in DOMAIN cdStore
    /\ cdStore[HABITS_DATA] = <<HabitPool[3], HabitPool[4]>>
    /\ WORKOUT_HISTORY \in DOMAIN cdStore
    /\ HISTORY_WATER \in DOMAIN cdStore

\* The place of a row family in the order meta, water, water_history,
\* protein, protein_history, workout_state, workout_count, workout_history,
\* habit, habit_history, settings.
FamilyOrder ==
    << <<"meta">>, <<"water">>, <<"water_history">>, <<"protein">>,
       <<"protein_history">>, <<"workout_state">>, <<"workout_count">>,
       <<"workout_history">>, <<"habit">>, <<"habit_history">>,
       <<"settings">> >>

FamilyRank(family) == CHOOSE r \in 1..Len(FamilyOrder) : FamilyOrder[r] = family

\* The place of a family when habit and habit_history rows count as one
\* family.
HabitBlockRank(family) ==
    IF family = <<"habit_history">> THEN FamilyRank(<<"habit">>)
    ELSE FamilyRank(family)

\* The family of line i of the text.
FamilyAt(lines, i) == parseCSVRow(lines[i])[1]

\* The habit index a habit or habit_history line carries in its key.
HabitIndexAt(lines, i) == SplitUnderscore(parseCSVRow(lines[i])[2])[1]

\* C12 as stated: in the exported text no row of an earlier family comes
\* after a row of a later family, habit rows before habit_history rows.
FamiliesInFixedOrder ==
    (cdPc = "exported" /\ cdEdit = "none" /\ ~cdJunk)
        => \E lines \in {SplitLines(cdCsv)} :
              \A i, j \in 2..Len(lines) :
                 i < j => FamilyRank(FamilyAt(lines, i))
                             <= FamilyRank(FamilyAt(lines, j))

\* C12: in the exported text the families come in the fixed order, with
\* the habit and habit_history rows forming one block in which every habit
\* row is followed by the habit_history rows of that habit.
FamiliesInOrderHabitsByBlock ==
    (cdPc = "exported" /\ cdEdit = "none" /\ ~cdJunk)
        => \E lines \in {SplitLines(cdCsv)} :
              /\ \A i, j \in 2..Len(lines) :
                    i < j => HabitBlockRank(FamilyAt(lines, i))
                                <= HabitBlockRank(FamilyAt(lines, j))
              /\ \A i \in 2..Len(lines) :
                    FamilyAt(lines, i) = <<"habit_history">>
                      => /\ i > 2
                         /\ FamilyAt(lines, i - 1)
                               \in {<<"habit">>, <<"habit_history">>}
                         /\ HabitIndexAt(lines, i - 1) = HabitIndexAt(lines, i)

\* Two habits were exported, the first of them with a history.
ExportedTwoHabitsWithHistory ==
    /\ cdPc = "exported"
    /\ cdEdit = "none"
    /\ ~cdJunk
    /\ HABITS_DATA \in DOMAIN cdStore
    /\ cdStore[HABITS_DATA] = <<HabitPool[2], HabitPool[3]>>
    /\ WORKOUT_STATE \in DOMAIN cdStore
    /\ THEME \in DOMAIN cdStore

---------------------------------------------------------------------------
(* escapeCSV on its own: a value of the store is escaped. *)

EscChars == {"a", COMMA, QUOTE, LF}

\* The values a row may hold: null, undefined, strings, numbers, booleans.
EscValues ==
    {Null, Undef, NaN, Num(0), Num(25), Bool(TRUE), Bool(FALSE),
     Str(<<"a", COMMA, "b", QUOTE, "c">>)}
      \cup {Str(str) : str \in StringsUpTo(EscChars, MaxEscapeLen)}

EscInit ==
    /\ escValue \in EscValues
    /\ escResult = <<>>
    /\ escPc = "start"

EscEscape ==
    /\ escPc = "start"
    /\ escResult' = escapeCSV(escValue)
    /\ escPc' = "done"
    /\ UNCHANGED escValue
    /\ UNCHANGED notEsc

EscNext == EscEscape

InitEscape == RowIdle /\ StrIdle /\ CdIdle /\ ImIdle /\ EscInit /\ WkIdle /\ HsIdle /\ AnIdle
    /\ RmIdle /\ LpIdle

SpecEscape == InitEscape /\ [][EscNext]_vars

\* The number of double quotes among the first n tokens of str.
QuotesBefore(str, n) == Cardinality({i \in 1..n : str[i] = QUOTE})

\* body is str with every double quote doubled.
IsDoubled(body, str) ==
    /\ Len(body) = Len(str) + QuotesBefore(str, Len(str))
    /\ \A i \in 1..Len(str) :
          /\ body[i + QuotesBefore(str, i - 1)] = str[i]
          /\ str[i] = QUOTE => body[i + QuotesBefore(str, i - 1) + 1] = QUOTE

\* C13: escapeCSV returns the empty string for null and undefined; for
\* another value whose string form holds a comma, a double quote or a
\* newline it returns the string form between double quotes with every inner
\* double quote doubled, and else the string form unchanged.
EscapeAsSpecified ==
    escPc = "done" =>
        IF escValue \in {Null, Undef} THEN escResult = <<>>
        ELSE IF \E i \in 1..Len(JSString(escValue)) :
                   JSString(escValue)[i] \in {COMMA, QUOTE, LF}
        THEN /\ Len(escResult) >= 2
             /\ Head(escResult) = QUOTE
             /\ escResult[Len(escResult)] = QUOTE
             /\ IsDoubled(SubSeq(escResult, 2, Len(escResult) - 1),
                          JSString(escValue))
        ELSE escResult = JSString(escValue)

\* a,b"c was escaped to "a,b""c".
EscapedExample ==
    /\ escPc = "done"
    /\ escValue = Str(<<"a", COMMA, "b", QUOTE, "c">>)
    /\ escResult = <<QUOTE, "a", COMMA, "b", QUOTE, QUOTE, "c", QUOTE>>

---------------------------------------------------------------------------
(* parseCSVRow on its own: a line of a file, written by any program, is    *)
(* scanned.                                                                *)

Lines == StringsUpTo(RowChars, MaxLineLen)

LineInit ==
    /\ rowFields = <<>>
    /\ rowLine \in Lines
    /\ rowParsed = <<>>
    /\ rowPc = "written"

LineNext == RowParse

InitLine == LineInit /\ StrIdle /\ CdIdle /\ ImIdle /\ EscIdle /\ WkIdle /\ HsIdle /\ AnIdle
    /\ RmIdle /\ LpIdle

SpecLine == InitLine /\ [][LineNext]_vars

\* The scan in which a double quote followed by a double quote is one
\* literal quote only inside quotes, and toggles the flag outside.
RECURSIVE ScanInsideOnly(_, _, _, _, _)
ScanInsideOnly(row, i, result, insideQuotes, currentValue) ==
    IF i > Len(row) THEN Append(result, currentValue)
    ELSE IF row[i] = QUOTE
    THEN IF insideQuotes /\ i + 1 <= Len(row) /\ row[i + 1] = QUOTE
         THEN ScanInsideOnly(row, i + 2, result, insideQuotes,
                             Append(currentValue, QUOTE))
         ELSE ScanInsideOnly(row, i + 1, result, ~insideQuotes, currentValue)
    ELSE IF row[i] = COMMA /\ ~insideQuotes
    THEN ScanInsideOnly(row, i + 1, Append(result, currentValue), insideQuotes,
                        <<>>)
    ELSE ScanInsideOnly(row, i + 1, result, insideQuotes,
                        Append(currentValue, row[i]))

\* C14: parseCSVRow reads a double quote followed by a double quote as one
\* literal quote only while inside quotes; outside quotes a double quote
\* toggles the flag and emits nothing, so an empty quoted field parses to
\* the empty string.
QuotePairOnlyInsideQuotes ==
    rowPc = "parsed" =>
        rowParsed = ScanInsideOnly(rowLine, 1, <<>>, FALSE, <<>>)

---------------------------------------------------------------------------
(* Properties of decoding a row with a malformed number *)

\* The position of the line in which the text differs from the text before
\* the edit.
EditedLine(before, after) ==
    CHOOSE i \in 1..Len(SplitLines(before)) :
        SplitLines(before)[i] # SplitLines(after)[i]

\* history with the field of entry number index (from 0) of the date set.
WithEntryField(history, date, index, field, v) ==
    ObjPut(history, date,
           [ObjGet(history, date) EXCEPT ![index + 1] =
               [f \in DOMAIN @ |-> IF f = field THEN v ELSE @[f]]])

\* The snapshot d with the number that the exported line carries set to v;
\* the key column of the line names the entry.
WithNumberOf(d, line, v) ==
    LET row == parseCSVRow(line)
        family == row[1]
        parts == SplitUnderscore(row[2])
    IN  CASE family = <<"water_history">> ->
               [d EXCEPT !.water.history =
                   WithEntryField(@, parts[1], parseInt(Str(parts[2])).n,
                                  "amount", v)]
          [] family = <<"protein_history">> ->
               [d EXCEPT !.protein.history =
                   WithEntryField(@, parts[1], parseInt(Str(parts[2])).n,
                                  "amount", v)]
          [] family = <<"workout_history">> ->
               [d EXCEPT !.workout.history =
                   WithEntryField(@, parts[1], parseInt(Str(parts[2])).n,
                                  "count", v)]
          [] family = <<"workout_state">> ->
               [d EXCEPT !.workout.state =
                   ObjPut(@, row[2], [ObjGet(@, row[2]) EXCEPT !.order = v])]
          [] family = <<"workout_count">> ->
               [d EXCEPT !.workout.count = ObjPut(@, row[2], v)]

\* The text found in the number cell of the edited line.
EditedNumberText ==
    LET line == SplitLines(cdCsv)[EditedLine(cdBase, cdCsv)] IN
    parseCSVRow(line)[NumberColumn(parseCSVRow(line)[1]) + 1]

---------------------------------------------------------------------------
(* Properties of decoding an absent goal, intake or reminder *)

\* The goals, intakes and the reminder: the store key, the row that carries
\* it and the field of the snapshot it is decoded into.
ScalarFields(d) ==
    << [key |-> GOAL_WATER, family |-> <<"water">>, name |-> <<"goal">>,
        decoded |-> d.water.goal],
       [key |-> INTAKE_WATER, family |-> <<"water">>, name |-> <<"intake">>,
        decoded |-> d.water.intake],
       [key |-> GOAL_PROTEIN, family |-> <<"protein">>, name |-> <<"goal">>,
        decoded |-> d.protein.goal],
       [key |-> INTAKE_PROTEIN, family |-> <<"protein">>, name |-> <<"intake">>,
        decoded |-> d.protein.intake],
       [key |-> REMINDER, family |-> <<"settings">>, name |-> <<"reminder">>,
        decoded |-> d.settings.reminder] >>

\* The text holds a row of the family and name whose value column is empty.
HasEmptyValueRow(text, family, name) ==
    \E i \in 2..Len(SplitLines(text)) :
        LET row == parseCSVRow(SplitLines(text)[i]) IN
        row[1] = family /\ row[2] = name /\ row[3] = <<>>

\* C16: a goal, intake or reminder absent from the store is exported with
\* an empty value column, and decoding the row gives null or NaN for the
\* field, never the empty string or another value.
AbsentScalarDecodesToNull ==
    (cdPc = "decoded" /\ cdEdit = "none" /\ ~cdJunk)
        => /\ cdDecoded.ok
           /\ \A i \in 1..Len(ScalarFields(cdDecoded)) :
                 LET f == ScalarFields(cdDecoded)[i] IN
                 f.key \notin DOMAIN cdStore
                   => /\ HasEmptyValueRow(cdCsv, f.family, f.name)
                      /\ f.decoded \in {Null, NaN}

\* The row of an absent goal, intake or reminder has an empty value column
\* and decodes to the empty string.
AbsentScalarDecodesToEmptyString ==
    (cdPc = "decoded" /\ cdEdit = "none" /\ ~cdJunk)
        => /\ cdDecoded.ok
           /\ \A i \in 1..Len(ScalarFields(cdDecoded)) :
                 LET f == ScalarFields(cdDecoded)[i] IN
                 f.key \notin DOMAIN cdStore
                   => /\ HasEmptyValueRow(cdCsv, f.family, f.name)
                      /\ f.decoded = Str(<<>>)

---------------------------------------------------------------------------
(* Properties of decoding rows in another order *)

\* Two snapshots hold the same data: the same scalars, the same maps
\* whatever the order of their keys, the same habit list.
SameSnapshot(a, b) ==
    /\ a.ok /\ b.ok
    /\ a.version = b.version /\ a.exportDate = b.exportDate
    /\ a.water.goal = b.water.goal /\ a.water.intake = b.water.intake
    /\ a.protein.goal = b.protein.goal /\ a.protein.intake = b.protein.intake
    /\ SameMap(a.water.history, b.water.history)
    /\ SameMap(a.protein.history, b.protein.history)
    /\ SameMap(a.workout.state, b.workout.state)
    /\ SameMap(a.workout.count, b.workout.count)
    /\ SameMap(a.workout.history, b.workout.history)
    /\ SameHabits(a.habits.data, b.habits.data)
    /\ a.settings = b.settings

\* C17: the decoded snapshot does not depend on the order of the data rows:
\* the text with rows after the header in another order decodes to the same
\* snapshot, with the same list of entries per date.
RowOrderHasNoEffect ==
    (cdPc = "decoded" /\ cdEdit = "swap")
        => SameSnapshot(cdDecoded, parseCSVData(cdBase, ImportTime))

\* Two maps from dates to entry lists hold the same dates with the same
\* entries per date, in whatever order.
SameEntriesPerDate(a, b) ==
    /\ ObjKeys(a) = ObjKeys(b)
    /\ \A k \in ObjKeys(a) :
          /\ Len(ObjGet(a, k)) = Len(ObjGet(b, k))
          /\ {ObjGet(a, k)[i] : i \in 1..Len(ObjGet(a, k))}
                = {ObjGet(b, k)[i] : i \in 1..Len(ObjGet(b, k))}

\* The order of the rows changes nothing but the order of the entries in
\* the list of a date.
RowOrderOnlyOrdersEntries ==
    (cdPc = "decoded" /\ cdEdit = "swap")
        => \E b \in {parseCSVData(cdBase, ImportTime)} :
              /\ SameSnapshot([cdDecoded EXCEPT !.water.history = <<>>,
                                                !.protein.history = <<>>,
                                                !.workout.history = <<>>],
                              [b EXCEPT !.water.history = <<>>,
                                        !.protein.history = <<>>,
                                        !.workout.history = <<>>])
              /\ SameEntriesPerDate(cdDecoded.water.history, b.water.history)
              /\ SameEntriesPerDate(cdDecoded.protein.history, b.protein.history)
              /\ SameEntriesPerDate(cdDecoded.workout.history, b.workout.history)

---------------------------------------------------------------------------
(* The WorkoutTracker: the application is opened and closed, workouts are  *)
(* clicked, days pass.  A date key is modelled by its day number and an    *)
(* ISO timestamp by the number of the instant.                             *)

\* The state and the counts of a tracker that finds nothing stored.
DefaultWorkoutState ==
    [i \in 1..Len(workoutTypes) |->
        [k |-> workoutTypes[i],
         v |-> [completed |-> Bool(FALSE), order |-> Num(i - 1)]]]

DefaultWorkoutCounts ==
    [i \in 1..Len(workoutTypes) |-> [k |-> workoutTypes[i], v |-> Num(0)]]

\* preserveTodaysWorkoutData: the history in memory and the store.
preserveTodaysWorkoutData(history, storage, currentDate) ==
    IF ObjHas(history, currentDate)
    THEN [history |-> history, store |-> storage]
    ELSE LET made == ObjPut(history, currentDate, <<>>) IN
         [history |-> made, store |-> setItem(storage, WORKOUT_HISTORY, made)]

\* checkAndResetDailyWorkouts of a running tracker.
checkAndResetRunning(history, storage, currentDate) ==
    IF LAST_RESET_WORKOUT \in DOMAIN storage
       /\ storage[LAST_RESET_WORKOUT] = currentDate
    THEN [history |-> history, store |-> storage]
    ELSE preserveTodaysWorkoutData(
             history, setItem(storage, LAST_RESET_WORKOUT, currentDate),
             currentDate)

\* No operation of the tracker was the last thing to happen.
NoOperation == [op |-> "none", type |-> ""]

NothingBefore == [state |-> <<>>, counts |-> <<>>, history |-> <<>>]

WkInit ==
    /\ wkStore = EmptyStore
    /\ wkState = <<>>
    /\ wkCounts = <<>>
    /\ wkHistory = <<>>
    /\ wkDay = 0
    /\ wkClock = 0
    /\ wkPc = "closed"
    /\ wkOp = NoOperation
    /\ wkBefore = NothingBefore

\* new WorkoutTracker(): the constructor loads the three keys and
\* initializeTracker runs checkAndResetDailyWorkouts.
WkConstruct ==
    /\ wkPc = "closed"
    /\ wkState' = getJSON(wkStore, WORKOUT_STATE, DefaultWorkoutState)
    /\ wkCounts' = getJSON(wkStore, WORKOUT_COUNT, DefaultWorkoutCounts)
    /\ \E r \in {checkAndResetRunning(getJSON(wkStore, WORKOUT_HISTORY, <<>>),
                                      wkStore, wkDay)} :
          /\ wkHistory' = r.history
          /\ wkStore' = r.store
    /\ wkPc' = "running"
    /\ wkOp' = NoOperation
    /\ wkBefore' = NothingBefore
    /\ UNCHANGED <<wkDay, wkClock>>
    /\ UNCHANGED notWk

\* A reset that leaves state and counts as they were.
keepWorkoutTabs(state, counts) == [state |-> state, counts |-> counts]

\* A save that leaves the history as it was.
keepWorkoutHistory(history, type, count, currentDate, now) == history

\* A reset that leaves the counts as they were.
resetOnlyState(state, counts) ==
    [state |-> [i \in 1..Len(state) |->
                   [k |-> state[i].k,
                    v |-> [completed |-> Bool(FALSE),
                           order |-> Num(PositionIn(workoutTypes, state[i].k) - 1)]]],
     counts |-> counts]

\* saveWorkoutHistory(type), with the count already increased.
saveWorkoutHistory(history, type, count, currentDate, now) ==
    ObjPut(IF ObjHas(history, currentDate) THEN history
           ELSE ObjPut(history, currentDate, <<>>),
           currentDate,
           Append(IF ObjHas(history, currentDate) THEN ObjGet(history, currentDate)
                  ELSE <<>>,
                  [type |-> Str(type), count |-> count, timestamp |-> Num(now)]))

\* Object.values(this.workoutState).every(state => state.completed)
AllCompleted(state) == \A i \in 1..Len(state) : state[i].v.completed = Bool(TRUE)

\* The state and counts resetWorkoutTabs leaves.
resetWorkoutTabs(state, counts) ==
    [state |-> [i \in 1..Len(state) |->
                   [k |-> state[i].k,
                    v |-> [completed |-> Bool(FALSE),
                           order |-> Num(PositionIn(workoutTypes, state[i].k) - 1)]]],
     counts |-> [i \in 1..Len(counts) |-> [k |-> counts[i].k, v |-> Num(0)]]]

\* saveState()
saveState(storage, state, counts) ==
    setItem(setItem(storage, WORKOUT_STATE, state), WORKOUT_COUNT, counts)

\* toggleWorkout(type): a click on the tab of a workout type.
WkToggleWorkout ==
    /\ wkPc = "running"
    /\ wkClock < MaxClicks
    /\ \E i \in 1..Len(workoutTypes) :
         \E type \in {workoutTypes[i]} :
         \E counts \in {ObjPut(wkCounts, type,
                               Num(ObjGet(wkCounts, type).n + 1))} :
         \E state \in {ObjPut(wkState, type,
                              [ObjGet(wkState, type) EXCEPT
                                  !.completed = Bool(TRUE)])} :
         \E history \in {saveWorkoutHistory(wkHistory, type, ObjGet(counts, type),
                                            wkDay, wkClock + 1)} :
            /\ wkHistory' = history
            /\ IF AllCompleted(state)
               THEN \E r \in {resetWorkoutTabs(state, counts)} :
                       /\ wkState' = r.state
                       /\ wkCounts' = r.counts
                       /\ wkStore' = saveState(setItem(wkStore, WORKOUT_HISTORY,
                                                       history),
                                               r.state, r.counts)
               ELSE /\ wkState' = state
                    /\ wkCounts' = counts
                    /\ wkStore' = saveState(setItem(wkStore, WORKOUT_HISTORY,
                                                    history), state, counts)
            /\ wkOp' = [op |-> "toggleWorkout", type |-> type]
    /\ wkBefore' = [state |-> wkState, counts |-> wkCounts, history |-> wkHistory]
    /\ wkClock' = wkClock + 1
    /\ UNCHANGED <<wkDay, wkPc>>
    /\ UNCHANGED notWk

\* A click on the button that resets the tabs: resetWorkoutTabs().
WkResetWorkoutTabs ==
    /\ wkPc = "running"
    /\ \E r \in {resetWorkoutTabs(wkState, wkCounts)} :
          /\ wkState' = r.state
          /\ wkCounts' = r.counts
          /\ wkStore' = saveState(wkStore, r.state, r.counts)
    /\ wkOp' = [op |-> "resetWorkoutTabs", type |-> ""]
    /\ wkBefore' = [state |-> wkState, counts |-> wkCounts, history |-> wkHistory]
    /\ UNCHANGED <<wkHistory, wkDay, wkClock, wkPc>>
    /\ UNCHANGED notWk

\* A click on the button that resets the day, confirmed:
\* resetDailyWorkouts().
WkResetDailyWorkouts ==
    /\ wkPc = "running"
    /\ \E r \in {resetWorkoutTabs(wkState, wkCounts)} :
          /\ wkState' = r.state
          /\ wkCounts' = r.counts
          /\ IF ObjHas(wkHistory, wkDay)
             THEN \E history \in {DeleteKeys(wkHistory, {wkDay})} :
                     /\ wkHistory' = history
                     /\ wkStore' = setItem(saveState(wkStore, r.state, r.counts),
                                           WORKOUT_HISTORY, history)
             ELSE /\ wkHistory' = wkHistory
                  /\ wkStore' = saveState(wkStore, r.state, r.counts)
    /\ wkOp' = [op |-> "resetDailyWorkouts", type |-> ""]
    /\ wkBefore' = [state |-> wkState, counts |-> wkCounts, history |-> wkHistory]
    /\ UNCHANGED <<wkDay, wkClock, wkPc>>
    /\ UNCHANGED notWk

\* Midnight passes while the tracker runs: the timer of setupMidnightReset
\* fires and runs checkAndResetDailyWorkouts on the new day.
WkMidnight ==
    /\ wkPc = "running"
    /\ wkDay + 1 < MaxDay
    /\ wkDay' = wkDay + 1
    /\ \E r \in {checkAndResetRunning(wkHistory, wkStore, wkDay + 1)} :
          /\ wkHistory' = r.history
          /\ wkStore' = r.store
    /\ wkOp' = NoOperation
    /\ wkBefore' = NothingBefore
    /\ UNCHANGED <<wkState, wkCounts, wkClock, wkPc>>
    /\ UNCHANGED notWk

\* Midnight passes while the application is closed.
WkNightClosed ==
    /\ wkPc = "closed"
    /\ wkDay + 1 < MaxDay
    /\ wkDay' = wkDay + 1
    /\ UNCHANGED <<wkStore, wkState, wkCounts, wkHistory, wkClock, wkPc, wkOp,
                   wkBefore>>
    /\ UNCHANGED notWk

\* The page is closed: what the tracker held in memory is gone.
WkClose ==
    /\ wkPc = "running"
    /\ wkState' = <<>>
    /\ wkCounts' = <<>>
    /\ wkHistory' = <<>>
    /\ wkPc' = "closed"
    /\ wkOp' = NoOperation
    /\ wkBefore' = NothingBefore
    /\ UNCHANGED <<wkStore, wkDay, wkClock>>
    /\ UNCHANGED notWk

WkNext ==
    \/ WkConstruct
    \/ WkToggleWorkout
    \/ WkResetWorkoutTabs
    \/ WkResetDailyWorkouts
    \/ WkMidnight
    \/ WkNightClosed
    \/ WkClose

InitWorkout == RowIdle /\ StrIdle /\ CdIdle /\ ImIdle /\ EscIdle /\ WkInit /\ HsIdle /\ AnIdle
    /\ RmIdle /\ LpIdle

SpecWorkout == InitWorkout /\ [][WkNext]_vars

\* No date of the history holds an empty list of entries.
NoEmptyList(history) == \A i \in 1..Len(history) : history[i].v # <<>>

\* C18: in every reachable state no workout history, in memory or in the
\* store, holds a date key whose entry list is empty: a date key exists
\* only if a workout was recorded on that date.
NoEmptyHistoryDate ==
    /\ NoEmptyList(wkHistory)
    /\ NoEmptyList(getJSON(wkStore, WORKOUT_HISTORY, <<>>))

---------------------------------------------------------------------------
(* Saving the habits: saveHabits with the storage manager's cleanup.  A    *)
(* date key is modelled by its day number, so sorting the keys as strings  *)
(* is sorting the numbers.                                                 *)

\* The dates cleanupOldData keeps in a history and in a habit's history.
HistoryKeepDays == 90
HabitKeepDays == 90
\* The dates saveHabits keeps in a habit's history when space is low.
NearQuotaKeepDays == 30
\* The writes of habits_data saveHabits attempts.
SetItemAttempts == 3
\* The days of a month, all months taken alike.
MonthLength == 31

\* The dates cleanupOldData drops, taken the other way round: the newest.
RemoveNewestDates(history, keep) ==
    {k \in ObjKeys(history) :
        Cardinality({j \in ObjKeys(history) : j < k}) >= keep}

\* dates.slice(0, dates.length - keep) of the sorted keys, when there are
\* more than keep of them.
DatesToRemove(history, keep) ==
    {k \in ObjKeys(history) :
        Cardinality({j \in ObjKeys(history) : j > k}) >= keep}

\* The habits with the history of each cut to its latest keep dates.
TrimHabits(habits, keep) ==
    [i \in 1..Len(habits) |->
        [habits[i] EXCEPT
            !.history = DeleteKeys(@, DatesToRemove(@, keep))]]

\* cleanupOldData, one standard history key.
CleanHistoryKey(acc, key) ==
    IF key \notin DOMAIN acc.store THEN acc
    ELSE IF Len(acc.store[key]) > HistoryKeepDays
    THEN [store |-> setItem(acc.store, key,
                            DeleteKeys(acc.store[key],
                                       DatesToRemove(acc.store[key],
                                                     HistoryKeepDays))),
          cleaned |-> TRUE]
    ELSE acc

\* cleanupOldData, the habits_data key.
CleanHabitsKey(acc) ==
    IF HABITS_DATA \notin DOMAIN acc.store THEN acc
    ELSE [store |-> setItem(acc.store, HABITS_DATA,
                            TrimHabits(acc.store[HABITS_DATA], HabitKeepDays)),
          cleaned |-> acc.cleaned
                      \/ \E i \in 1..Len(acc.store[HABITS_DATA]) :
                           Len(acc.store[HABITS_DATA][i].history) > HabitKeepDays]

\* storageManager.cleanupOldData(): the store it leaves and its answer.
cleanupOldData(storage) ==
    CleanHabitsKey(
        CleanHistoryKey(
            CleanHistoryKey(
                CleanHistoryKey([store |-> storage, cleaned |-> FALSE],
                                HISTORY_WATER),
                HISTORY_PROTEIN),
            WORKOUT_HISTORY))

\* The month a date falls in.
MonthOf(date) == date \div MonthLength

\* The aggressive cleanup: every date outside the current month goes.
KeepCurrentMonth(habits, today) ==
    [i \in 1..Len(habits) |->
        [habits[i] EXCEPT
            !.history = DeleteKeys(@, {k \in ObjKeys(@) :
                                          MonthOf(k) # MonthOf(today)})]]

\* The last resort: only today's status stays.
KeepToday(habits, today) ==
    [i \in 1..Len(habits) |->
        [habits[i] EXCEPT
            !.history = IF ObjHas(@, today) /\ Truthy(ObjGet(@, today))
                        THEN <<[k |-> today, v |-> ObjGet(@, today)]>>
                        ELSE <<>>]]

\* saveHabits(): this.habits and the store it leaves.  nearQuota is the
\* answer of isNearQuota(), failures the writes of habits_data that throw
\* QuotaExceededError.
saveHabits(habits, storage, nearQuota, failures, today) ==
    LET cleanup == IF nearQuota THEN cleanupOldData(storage)
                   ELSE [store |-> storage, cleaned |-> TRUE]
        first == IF nearQuota /\ ~cleanup.cleaned
                 THEN TrimHabits(habits, NearQuotaKeepDays)
                 ELSE habits
        second == KeepCurrentMonth(first, today)
        third == KeepToday(second, today)
    IN  IF failures = 0
        THEN [habits |-> first, store |-> setItem(cleanup.store, HABITS_DATA, first)]
        ELSE IF failures = 1
        THEN [habits |-> second,
              store |-> setItem(cleanup.store, HABITS_DATA, second)]
        ELSE IF failures = 2
        THEN [habits |-> third, store |-> setItem(cleanup.store, HABITS_DATA, third)]
        ELSE [habits |-> third, store |-> cleanup.store]

\* The extra dates a history holds beyond what the cleanup keeps.
ExtraDays == 0..MaxExtraDays

\* The day saveHabits runs.
SaveDay == HistoryKeepDays + MaxExtraDays

\* A workout or intake history of the n days that end at SaveDay.
HistoryOfDays(n) ==
    [i \in 1..n |-> [k |-> SaveDay - n + i, v |-> <<Num(i)>>]]

\* A habit history of the n days that end at SaveDay.
HabitHistoryOfDays(n) ==
    [i \in 1..n |->
        [k |-> SaveDay - n + i,
         v |-> IF i % 2 = 0 THEN Str(<<"done">>) ELSE Str(<<"fail">>)]]

HistorySizes == {0} \cup {HistoryKeepDays + e : e \in ExtraDays}

HabitHistorySizes ==
    {1} \cup {NearQuotaKeepDays + e : e \in ExtraDays}
        \cup {HabitKeepDays + e : e \in ExtraDays}

\* A store with a history of n days under key; n = 0 leaves the key out.
HistoryStore(key, n) ==
    IF n = 0 THEN EmptyStore ELSE key :> HistoryOfDays(n)

\* The habits of the store: one with a history of n days, one of 2 days.
StoredHabits(n) ==
    <<[name |-> Str(<<"Run">>), color |-> Str(<<"default">>),
       history |-> HabitHistoryOfDays(n)],
      [name |-> Str(<<"Read">>), color |-> Str(<<"green">>),
       history |-> HabitHistoryOfDays(2)]>>

\* habit.history[dateKey] = currentStatus === 'fail' ? 'done' : 'fail'
FlipStatus(habits, i, date) ==
    [habits EXCEPT ![i].history =
        ObjPut(@, date, IF ObjGet(@, date) = Str(<<"fail">>)
                        THEN Str(<<"done">>) ELSE Str(<<"fail">>))]

\* The store holds histories of several sizes; the tracker holds the stored
\* habits with today's status of the first just changed.
HsInit ==
    /\ \E w \in HistorySizes, p \in HistorySizes, x \in HistorySizes,
          h \in HabitHistorySizes :
          /\ hsHabits = FlipStatus(StoredHabits(h), 1, SaveDay)
          /\ hsStore = HistoryStore(HISTORY_WATER, w)
                       @@ HistoryStore(HISTORY_PROTEIN, p)
                       @@ HistoryStore(WORKOUT_HISTORY, x)
                       @@ (HABITS_DATA :> StoredHabits(h))
    /\ hsBefore = <<>>
    /\ hsNearQuota \in BOOLEAN
    /\ hsFailures \in 0..SetItemAttempts
    /\ hsCleaned = FALSE
    /\ hsPc = "loaded"

\* A change of the habits is saved: saveHabits().
HsSaveHabits ==
    /\ hsPc = "loaded"
    /\ \E r \in {saveHabits(hsHabits, hsStore, hsNearQuota, hsFailures, SaveDay)} :
          /\ hsHabits' = r.habits
          /\ hsStore' = r.store
    /\ hsBefore' = hsStore
    /\ hsPc' = "saved"
    /\ UNCHANGED <<hsNearQuota, hsFailures, hsCleaned>>
    /\ UNCHANGED notHs

\* The page loads with the store near its quota: cleanupOldData().
HsCleanup ==
    /\ hsPc = "loaded"
    /\ hsNearQuota
    /\ \E r \in {cleanupOldData(hsStore)} :
          /\ hsStore' = r.store
          /\ hsCleaned' = r.cleaned
    /\ hsBefore' = hsStore
    /\ hsPc' = "cleaned"
    /\ UNCHANGED <<hsHabits, hsNearQuota, hsFailures>>
    /\ UNCHANGED notHs

HsNext ==
    \/ HsSaveHabits
    \/ HsCleanup

InitSave == RowIdle /\ StrIdle /\ CdIdle /\ ImIdle /\ EscIdle /\ WkIdle /\ HsInit /\ AnIdle
    /\ RmIdle /\ LpIdle

SpecSave == InitSave /\ [][HsNext]_vars

\* The histories of the store other than the habits'.
OtherHistoryKeys == {HISTORY_WATER, HISTORY_PROTEIN, WORKOUT_HISTORY}

SameOtherHistories(a, b) ==
    \A key \in OtherHistoryKeys :
        /\ (key \in DOMAIN a) = (key \in DOMAIN b)
        /\ key \in DOMAIN a => a[key] = b[key]

\* C19: saveHabits changes no store key other than habits_data, in every
\* storage state, near the quota and over it: the water, protein and workout
\* history of the store are the same before and after the save.
HabitSaveKeepsOtherKeys ==
    hsPc = "saved" =>
        /\ DOMAIN hsStore \ {HABITS_DATA} = DOMAIN hsBefore \ {HABITS_DATA}
        /\ SameOtherHistories(hsBefore, hsStore)

\* Away from the quota warning the other keys stay as they were, whatever
\* number of writes fails.
HabitSaveKeepsOtherKeysBelowWarning ==
    hsPc = "saved" /\ ~hsNearQuota =>
        /\ DOMAIN hsStore \ {HABITS_DATA} = DOMAIN hsBefore \ {HABITS_DATA}
        /\ SameOtherHistories(hsBefore, hsStore)

---------------------------------------------------------------------------
(* The workout analyzer: the streaks of the workout history in the view    *)
(* selected.  A date key is modelled by its day number.                    *)

\* Object.keys(this.workoutHistory).sort()
RECURSIVE SortedKeysFrom(_, _)
SortedKeysFrom(history, day) ==
    IF day >= MaxDay THEN <<>>
    ELSE (IF ObjHas(history, day) THEN <<day>> ELSE <<>>)
         \o SortedKeysFrom(history, day + 1)

\* !(!entries || entries.length === 0), the test of the all-workouts view.
HasAnyEntry(entries, type) == entries # <<>>

\* entries.some(entry => entry.type === type)
HasTypeEntry(entries, type) ==
    \E j \in 1..Len(entries) : entries[j].type = Str(type)

\* The forEach of calculateWorkoutStreaks (all-workouts view) and of
\* calculateAllWorkoutTypeStreaks from position i: the streaks pushed so far
\* and the open streak (<<>> stands for currentStreak = null).
\* The test of a day in the scan: any entry (anyType), or one of the type.
HasWorkout(anyType, entries, type) ==
    IF anyType THEN HasAnyEntry(entries, type) ELSE HasTypeEntry(entries, type)

RECURSIVE WorkoutStreakScan(_, _, _, _, _, _, _, _)
WorkoutStreakScan(anyType, type, zone, history, sortedDates, i, streaks, cur) ==
    IF i > Len(sortedDates)
    THEN IF cur # <<>> /\ cur[1].length > 1
         THEN streaks \o cur ELSE streaks
    ELSE LET date == sortedDates[i]
             fresh == [start |-> date, end |-> date, length |-> 1]
         IN  IF ~HasWorkout(anyType, ObjGet(history, date), type)
             THEN WorkoutStreakScan(anyType, type, zone, history, sortedDates,
                      i + 1,
                      IF cur # <<>> /\ cur[1].length > 1
                      THEN streaks \o cur ELSE streaks,
                      <<>>)
             ELSE IF cur = <<>>
             THEN WorkoutStreakScan(anyType, type, zone, history, sortedDates,
                      i + 1, streaks, <<fresh>>)
             ELSE IF NewDate(date) = SetDateNextDay(zone, NewDate(cur[1].end))
             THEN WorkoutStreakScan(anyType, type, zone, history, sortedDates,
                      i + 1, streaks,
                      <<[cur[1] EXCEPT !.end = date, !.length = @ + 1]>>)
             ELSE WorkoutStreakScan(anyType, type, zone, history, sortedDates,
                      i + 1, streaks \o cur, <<fresh>>)

calculateAllWorkoutTypeStreaks(zone, history, type) ==
    WorkoutStreakScan(FALSE, type, zone, history,
                      SortedKeysFrom(history, 0), 1, <<>>, <<>>)

\* The better of bestStreak and a streak that ends (<<>> stands for null).
Better(bestStreak, currentStreak) ==
    IF bestStreak = <<>> \/ currentStreak[1].length > bestStreak[1].length
    THEN currentStreak ELSE bestStreak

\* The forEach of calculateWorkoutTypeStreak from position i.
RECURSIVE BestStreakScan(_, _, _, _, _, _, _)
BestStreakScan(type, zone, history, sortedDates, i, bestStreak, currentStreak) ==
    IF i > Len(sortedDates)
    THEN IF currentStreak # <<>> /\ currentStreak[1].length > 1
         THEN Better(bestStreak, currentStreak) ELSE bestStreak
    ELSE LET date == sortedDates[i]
             fresh == [start |-> date, end |-> date, length |-> 1]
         IN  IF ~HasTypeEntry(ObjGet(history, date), type)
             THEN BestStreakScan(type, zone, history, sortedDates, i + 1,
                      IF currentStreak # <<>> /\ currentStreak[1].length > 1
                      THEN Better(bestStreak, currentStreak) ELSE bestStreak,
                      <<>>)
             ELSE IF currentStreak = <<>>
             THEN BestStreakScan(type, zone, history, sortedDates, i + 1,
                      bestStreak, <<fresh>>)
             ELSE IF NewDate(date) = SetDateNextDay(zone, NewDate(currentStreak[1].end))
             THEN BestStreakScan(type, zone, history, sortedDates, i + 1,
                      bestStreak,
                      <<[currentStreak[1] EXCEPT !.end = date,
                                                 !.length = @ + 1]>>)
             ELSE BestStreakScan(type, zone, history, sortedDates, i + 1,
                      Better(bestStreak, currentStreak), <<fresh>>)

calculateWorkoutTypeStreak(zone, history, type) ==
    BestStreakScan(type, zone, history, SortedKeysFrom(history, 0), 1, <<>>, <<>>)

\* The comparison view: the best streak of each type, when longer than 1.
RECURSIVE ComparisonStreaks(_, _, _)
ComparisonStreaks(zone, history, i) ==
    IF i > Len(workoutTypes) THEN <<>>
    ELSE LET typeStreak == calculateWorkoutTypeStreak(zone, history,
                                                      workoutTypes[i])
         IN  (IF typeStreak # <<>> /\ typeStreak[1].length > 1
              THEN <<[start |-> typeStreak[1].start, end |-> typeStreak[1].end,
                      length |-> typeStreak[1].length,
                      type |-> Str(workoutTypes[i])]>>
              ELSE <<>>)
             \o ComparisonStreaks(zone, history, i + 1)

\* The views of the analyzer: all workouts, the comparison, one type.
Views == {"all", "comparison", "chest", "back"}

\* view.charAt(0).toUpperCase() + view.slice(1)
Capitalize(view) ==
    CASE view = "chest" -> <<"Chest">>
      [] view = "back" -> <<"Back">>
      [] OTHER -> <<view>>

calculateWorkoutStreaks(zone, history, view) ==
    SortByLengthDesc(
        IF view = "all"
        THEN WorkoutStreakScan(TRUE, <<>>, zone, history,
                               SortedKeysFrom(history, 0), 1, <<>>, <<>>)
        ELSE IF view = "comparison"
        THEN ComparisonStreaks(zone, history, 1)
        ELSE calculateAllWorkoutTypeStreaks(zone, history, Capitalize(view)))

\* What the history may hold for a day: an empty list, or workouts.
DayEntries ==
    { <<>>,
      <<[type |-> Str(<<"Chest">>), count |-> Num(1), timestamp |-> Num(0)]>>,
      <<[type |-> Str(<<"Back">>), count |-> Num(1), timestamp |-> Num(0)],
        [type |-> Str(<<"Chest">>), count |-> Num(1), timestamp |-> Num(1)]>> }

\* The history with the entries of pick for its days, in the order of the days.
RECURSIVE HistoryFrom(_, _)
HistoryFrom(pick, day) ==
    IF day >= MaxDay THEN <<>>
    ELSE (IF day \in DOMAIN pick THEN <<[k |-> day, v |-> pick[day]]>> ELSE <<>>)
         \o HistoryFrom(pick, day + 1)

WorkoutHistories ==
    {HistoryFrom(pick, 0) : pick \in UNION {[D -> DayEntries] : D \in SUBSET Days}}

AnInit ==
    /\ anHistory \in WorkoutHistories
    /\ anZone \in Zones
    /\ anView \in Views
    /\ anResult = <<>>
    /\ anPc = "start"

AnCalculate ==
    /\ anPc = "start"
    /\ anResult' = calculateWorkoutStreaks(anZone, anHistory, anView)
    /\ anPc' = "done"
    /\ UNCHANGED <<anHistory, anZone, anView>>
    /\ UNCHANGED notAn

AnNext == AnCalculate

InitAnalyze ==
    RowIdle /\ StrIdle /\ CdIdle /\ ImIdle /\ EscIdle /\ WkIdle /\ HsIdle /\ AnInit
    /\ RmIdle /\ LpIdle

SpecAnalyze == InitAnalyze /\ [][AnNext]_vars

\* The done predicate of a view: the day has an entry, or one of the type.
WorkoutDone(history, view, day) ==
    /\ ObjHas(history, day)
    /\ IF view = "all" THEN HasAnyEntry(ObjGet(history, day), <<>>)
       ELSE HasTypeEntry(ObjGet(history, day), Capitalize(view))

\* The maximal runs of at least 2 consecutive done days.
WorkoutRuns(history, view) ==
    {r \in Days \X Days :
        /\ r[1] < r[2]
        /\ \A d \in r[1]..r[2] : WorkoutDone(history, view, d)
        /\ ~WorkoutDone(history, view, r[1] - 1)
        /\ ~WorkoutDone(history, view, r[2] + 1)}

\* The date-to-done map of a workout history in a view.
DoneMap(history, view) ==
    [d \in ObjKeys(history) |->
        IF WorkoutDone(history, view, d) THEN "done" ELSE "fail"]

\* The streaks of length at least 2, in their order.
RECURSIVE AtLeastTwo(_)
AtLeastTwo(streaks) ==
    IF streaks = <<>> THEN <<>>
    ELSE (IF Head(streaks).length >= 2 THEN <<Head(streaks)>> ELSE <<>>)
         \o AtLeastTwo(Tail(streaks))

StreaksAreRuns(streaks, runs) ==
    /\ Len(streaks) = Cardinality(runs)
    /\ {<<streaks[i].start, streaks[i].end>> : i \in 1..Len(streaks)} = runs
    /\ \A i \in 1..Len(streaks) :
          streaks[i].length = streaks[i].end - streaks[i].start + 1

\* The analyzer agrees with calculateStreaks on the date-to-done map, both
\* cut to the streaks of length at least 2.
WorkoutStreaksMatchHabitStreaks ==
    anPc = "done" /\ anView # "comparison" =>
        AtLeastTwo(anResult)
            = AtLeastTwo(calculateStreaks(anZone, DoneMap(anHistory, anView)))

\* C20: in the all-workouts view and in a single-type view the streaks of
\* length at least 2 the analyzer reports are exactly the maximal runs of at
\* least 2 consecutive days that satisfy the view's done predicate, and are
\* what calculateStreaks gives on the date-to-done map, cut to length 2 and
\* more.
WorkoutStreaksAreMaximalRuns ==
    anPc = "done" /\ anView # "comparison" =>
        /\ StreaksAreRuns(AtLeastTwo(anResult), WorkoutRuns(anHistory, anView))
        /\ AtLeastTwo(anResult)
              = AtLeastTwo(calculateStreaks(anZone, DoneMap(anHistory, anView)))

\* The same statement in a zone without daylight saving time.
WorkoutStreaksAreMaximalRunsNoDst ==
    anZone.dst < 0 => WorkoutStreaksAreMaximalRuns

---------------------------------------------------------------------------
(* The streaks shown: what the habit panel renders and what the workout    *)
(* analyzer hands to its renderer.                                         *)

\* renderStreaks(habit): the streaks a bar is created for, streaks.slice(0, 3)
\* of what calculateStreaks returns.
renderStreaks(zone, history) ==
    LET streaks == calculateStreaks(zone, history) IN
    SubSeq(streaks, 1, IF Len(streaks) < 3 THEN Len(streaks) ELSE 3)

\* C21: no streak of length 1 is shown: every streak calculateWorkoutStreaks
\* returns, in the all-workouts, comparison and single-type views, has
\* length at least 2 (and so has every streak renderStreaks makes a bar for).
NoShownStreakOfLengthOne ==
    anPc = "done" => \A i \in 1..Len(anResult) : anResult[i].length >= 2

\* The habit half of the statement: the bars of renderStreaks.
NoHabitBarOfLengthOne ==
    strPc = "done" =>
        \A i \in 1..Len(renderStreaks(strZone, strHistory)) :
            renderStreaks(strZone, strHistory)[i].length >= 2

\* In the comparison view every streak has length at least 2.
ComparisonStreaksAtLeastTwo ==
    anPc = "done" /\ anView = "comparison" =>
        \A i \in 1..Len(anResult) : anResult[i].length >= 2

\* The same statement in a zone without daylight saving time.
NoShownStreakOfLengthOneNoDst == anZone.dst < 0 => NoShownStreakOfLengthOne

---------------------------------------------------------------------------
(* Properties of the cleanup *)

\* The most recent n dates of a history.
MostRecent(history, n) ==
    {k \in ObjKeys(history) :
        Cardinality({j \in ObjKeys(history) : j >= k}) <= n}

\* new is old cut to its 90 most recent dates, their data as it was.
CutToNinety(old, new) ==
    /\ Len(new) <= 90
    /\ Len(old) <= 90 => new = old
    /\ Len(old) > 90 =>
          /\ Len(new) = 90
          /\ ObjKeys(new) = MostRecent(old, 90)
          /\ \A k \in ObjKeys(new) : ObjGet(new, k) = ObjGet(old, k)

\* Some history map of the store, a habit's included, has more than 90 dates.
SomeMapOverNinety(storage) ==
    \/ \E key \in OtherHistoryKeys \cap DOMAIN storage : Len(storage[key]) > 90
    \/ \E i \in 1..Len(getJSON(storage, HABITS_DATA, <<>>)) :
          Len(storage[HABITS_DATA][i].history) > 90

\* C22: after cleanupOldData every history map (water, protein, workout,
\* each habit's) holds at most 90 date keys; a map that had more keeps
\* exactly its 90 most recent dates with their data, a map with 90 or fewer
\* is unchanged, and the function returns true exactly when a date was
\* removed.
CleanupKeepsNinetyMostRecent ==
    hsPc = "cleaned" =>
        /\ DOMAIN hsStore = DOMAIN hsBefore
        /\ \A key \in OtherHistoryKeys \cap DOMAIN hsBefore :
              CutToNinety(hsBefore[key], hsStore[key])
        /\ Len(hsStore[HABITS_DATA]) = Len(hsBefore[HABITS_DATA])
        /\ \A i \in 1..Len(hsBefore[HABITS_DATA]) :
              /\ hsStore[HABITS_DATA][i].name = hsBefore[HABITS_DATA][i].name
              /\ hsStore[HABITS_DATA][i].color = hsBefore[HABITS_DATA][i].color
              /\ CutToNinety(hsBefore[HABITS_DATA][i].history,
                             hsStore[HABITS_DATA][i].history)
        /\ hsCleaned = SomeMapOverNinety(hsBefore)

\* A cleanup that cut a habit's history and a history of the store, and
\* left a third map of exactly 90 dates alone.
CleanedLongHistories ==
    /\ hsPc = "cleaned"
    /\ hsCleaned
    /\ Len(hsBefore[HABITS_DATA][1].history) > 90
    /\ HISTORY_WATER \in DOMAIN hsBefore /\ Len(hsBefore[HISTORY_WATER]) > 90
    /\ WORKOUT_HISTORY \in DOMAIN hsBefore /\ Len(hsBefore[WORKOUT_HISTORY]) = 90

---------------------------------------------------------------------------
(* The reminders of notification.js.  Time is counted in hours of local    *)
(* time; the instants told apart are the hours at which a reminder is due  *)
(* and the hour after each.  A timer fires at its target or, late, in the  *)
(* hour after it.  The timers are a record st = [pending, handle]: the     *)
(* timers the browser holds and, for each timer variable, whether it holds *)
(* an id.  A variable only ever holds the id of the last timer made for    *)
(* its slot, so a timer carries the flag held: its id is the one in the    *)
(* variable.                                                               *)

Reminders == {"supplements", "water", "protein"}

\* The timer variables: supplementsMorningTimer, supplementsEveningTimer,
\* waterAlertTimer, proteinAlertTimer, globalReminderInterval; "test" is the
\* timer of the test notification, which no variable holds.
Slots == {"morning", "evening", "water", "protein", "interval", "test"}

SlotsOf(reminder) ==
    IF reminder = "supplements" THEN {"morning", "evening"} ELSE {reminder}

\* The hour of setHours(h, 0, 0, 0) of a slot.
TargetHour(slot) ==
    CASE slot = "morning" -> 9
      [] slot = "evening" -> 22
      [] slot = "water" -> 20
      [] slot = "protein" -> 20

\* The instants of a day.
Hours == <<0, 9, 10, 20, 21, 22, 23>>

DayOf(t) == t \div 24

\* date.setHours(h, 0, 0, 0)
SetHours(t, h) == 24 * DayOf(t) + h

\* The instant after t.
NextInstant(t) ==
    IF t % 24 = Hours[Len(Hours)] THEN 24 * (DayOf(t) + 1) + Hours[1]
    ELSE SetHours(t, Hours[1 + CHOOSE i \in 1..Len(Hours) : Hours[i] = t % 24])

NoTimers == [pending |-> {}, handle |-> [slot \in Slots |-> FALSE]]

\* The timers with the variable of the slot left as it is.
keepTimer(st, slot) == st

\* clearTimeout(timer), clearInterval(timer) with the id the variable holds.
clearTimeout(st, slot) ==
    [st EXCEPT !.pending = {t \in @ : ~(t.slot = slot /\ t.held)}]

\* if (timer) { clearTimeout(timer); timer = null; }
clearTimer(st, slot) ==
    IF st.handle[slot]
    THEN [clearTimeout(st, slot) EXCEPT !.handle[slot] = FALSE]
    ELSE st

\* timer = setTimeout(callback, at - now)
setTimer(st, slot, at, kind) ==
    [pending |-> {IF t.slot = slot THEN [t EXCEPT !.held = FALSE] ELSE t :
                     t \in st.pending}
                 \cup {[slot |-> slot, at |-> at, kind |-> kind, held |-> TRUE]},
     handle |-> [st.handle EXCEPT ![slot] = TRUE]]

\* setTimeout(callback, at - now) with the id kept nowhere.
setLooseTimer(st, slot, at, kind) ==
    [st EXCEPT !.pending =
        @ \cup {[slot |-> slot, at |-> at, kind |-> kind, held |-> FALSE]}]

\* The time setHours gives for today, or for tomorrow when it has passed.
TodayOrTomorrow(now, h) ==
    IF now > SetHours(now, h) THEN SetHours(now, h) + 24 ELSE SetHours(now, h)

clearSupplementsReminders(st) == clearTimer(clearTimer(st, "morning"), "evening")

scheduleSupplementsReminders(st, now) ==
    setTimer(setTimer(clearSupplementsReminders(st),
                      "morning", TodayOrTomorrow(now, 9), "notify"),
             "evening", TodayOrTomorrow(now, 22), "notify")

\* scheduleWaterAlert and scheduleProteinAlert
scheduleAlert(st, now, slot) ==
    setTimer(clearTimer(st, slot), slot, TodayOrTomorrow(now, 20), "notify")

schedule(st, now, reminder) ==
    IF reminder = "supplements" THEN scheduleSupplementsReminders(st, now)
    ELSE scheduleAlert(st, now, reminder)

\* clearSupplementsReminders, clearWaterAlert, clearProteinAlert
clear_(st, reminder) ==
    IF reminder = "supplements" THEN clearSupplementsReminders(st)
    ELSE clearTimer(st, reminder)

\* startWaterIntervalReminder(minutes): the timers it leaves.
startWaterIntervalReminder(st, now, minutes) ==
    LET cleared == IF st.handle["interval"]
                   THEN clearTimeout(st, "interval") ELSE st
    IN  IF minutes <= 0 THEN cleared
        ELSE setTimer(cleared, "interval", now, "interval")

clearWaterIntervalReminder(st) == clearTimer(st, "interval")

\* scheduleAllNotifications()
scheduleAllNotifications(st, now, granted, stored, interval) ==
    IF ~granted THEN st
    ELSE LET a == IF stored["supplements"]
                  THEN scheduleSupplementsReminders(st, now) ELSE st
             b == IF stored["water"] THEN scheduleAlert(a, now, "water") ELSE a
             c == IF stored["protein"] THEN scheduleAlert(b, now, "protein") ELSE b
         IN  IF interval # 0 THEN startWaterIntervalReminder(c, now, interval)
             ELSE c

\* The callback of a timer that fires at now, the timer gone from the
\* browser's list: the timers it leaves.
Callback(st, t, now) ==
    IF t.kind = "reschedule"
    THEN schedule(st, now, IF t.slot = "morning" THEN "supplements" ELSE t.slot)
    ELSE IF t.kind = "notify" /\ t.slot = "morning"
    THEN setTimer(st, "morning", SetHours(now + 24, 9), "reschedule")
    ELSE IF t.kind = "notify" /\ t.slot \in {"water", "protein"}
    THEN setTimer(st, t.slot, SetHours(now + 24, 20), "reschedule")
    ELSE st

\* Whether the callback is that of the reminder (sendNotification,
\* checkWaterIntakeAndNotify, checkProteinIntakeAndNotify) and not the one
\* that only schedules.
RunsReminder(t) == t.kind # "reschedule"

\* The daily slots.
DailySlots == {"morning", "evening", "water", "protein"}

\* When each daily slot is first due since its reminder was scheduled, given
\* the timers a handler leaves: the target of the slot's first timer.
SinceAfter(since, st) ==
    [slot \in DailySlots |->
        IF since[slot] < 0 /\ \E t \in st.pending : t.slot = slot
        THEN (CHOOSE t \in st.pending : t.slot = slot /\ t.held).at
        ELSE since[slot]]

Timers == [pending |-> rmPending, handle |-> rmHandle]

\* The hours of day 0 at which the page is loaded.
LoadHours == {0, 20}

\* The page is loaded on day 0: initializeGlobalNotifications().
RmInit ==
    /\ rmNow \in LoadHours
    /\ rmGranted \in BOOLEAN
    /\ rmStored \in [Reminders -> BOOLEAN]
    /\ rmInterval \in {0, 30}
    /\ \E st \in {scheduleAllNotifications(NoTimers, rmNow, rmGranted, rmStored,
                                           rmInterval)} :
          /\ rmPending = st.pending
          /\ rmHandle = st.handle
          /\ rmSince = SinceAfter([slot \in DailySlots |-> 0 - 1], st)
    /\ rmRan = [slot \in DailySlots |-> 0 - 1]
    /\ rmEvents = 0
    /\ rmPc = "loaded"

SetTimers(st) ==
    /\ rmPending' = st.pending
    /\ rmHandle' = st.handle

\* The change handler of a reminder's toggle: it is switched on or off.
RmToggle ==
    /\ rmPc = "loaded"
    /\ rmEvents < MaxReminderEvents
    /\ \E r \in Reminders :
          /\ rmStored' = [rmStored EXCEPT ![r] = ~@]
          /\ IF ~rmStored[r]
             THEN \E st \in {schedule(Timers, rmNow, r)} :
                     /\ SetTimers(st)
                     /\ rmSince' = SinceAfter(rmSince, st)
             ELSE /\ SetTimers(clear_(Timers, r))
                  /\ rmSince' = [slot \in DailySlots |->
                                    IF slot \in SlotsOf(r) THEN 0 - 1
                                    ELSE rmSince[slot]]
    /\ rmEvents' = rmEvents + 1
    /\ UNCHANGED <<rmNow, rmGranted, rmInterval, rmRan, rmPc>>
    /\ UNCHANGED notRm

\* requestNotificationPermission() answered with 'granted'.
RmGranted ==
    /\ rmPc = "loaded"
    /\ rmEvents < MaxReminderEvents
    /\ rmGranted' = TRUE
    /\ \E st \in {scheduleAllNotifications(
                      setLooseTimer(Timers, "test", rmNow, "test"),
                      rmNow, TRUE, rmStored, rmInterval)} :
          /\ SetTimers(st)
          /\ rmSince' = SinceAfter(rmSince, st)
    /\ rmEvents' = rmEvents + 1
    /\ UNCHANGED <<rmNow, rmStored, rmInterval, rmRan, rmPc>>
    /\ UNCHANGED notRm

\* The click on water-set-reminder with a valid number of minutes.
RmSetInterval ==
    /\ rmPc = "loaded"
    /\ rmEvents < MaxReminderEvents
    /\ \E minutes \in {30, 60} :
          /\ rmInterval' = minutes
          /\ SetTimers(startWaterIntervalReminder(Timers, rmNow, minutes))
    /\ rmEvents' = rmEvents + 1
    /\ UNCHANGED <<rmNow, rmGranted, rmStored, rmRan, rmSince, rmPc>>
    /\ UNCHANGED notRm

\* clearWaterIntervalReminder()
RmClearInterval ==
    /\ rmPc = "loaded"
    /\ rmEvents < MaxReminderEvents
    /\ rmInterval' = 0
    /\ SetTimers(clearWaterIntervalReminder(Timers))
    /\ rmEvents' = rmEvents + 1
    /\ UNCHANGED <<rmNow, rmGranted, rmStored, rmRan, rmSince, rmPc>>
    /\ UNCHANGED notRm

\* A timer of setTimeout fires, at its target time or in the hour after.
RmFire ==
    /\ rmPc = "loaded"
    /\ \E t \in rmPending :
          /\ t.kind # "interval"
          /\ t.at <= rmNow
          /\ SetTimers(Callback([Timers EXCEPT !.pending = @ \ {t}], t, rmNow))
          /\ rmRan' = IF RunsReminder(t) /\ t.slot \in DailySlots
                      THEN [rmRan EXCEPT ![t.slot] = DayOf(rmNow)] ELSE rmRan
    /\ UNCHANGED <<rmNow, rmGranted, rmStored, rmInterval, rmSince, rmEvents, rmPc>>
    /\ UNCHANGED notRm

\* The timer of setInterval fires and sends its notification: it stays with
\* the browser.
RmFireInterval ==
    /\ rmPc = "loaded"
    /\ \E t \in rmPending : t.kind = "interval"
    /\ UNCHANGED <<rmNow, rmGranted, rmStored, rmInterval, rmPending, rmHandle,
                   rmRan, rmSince, rmEvents, rmPc>>
    /\ UNCHANGED notRm

\* Time passes to the next instant; no timer is more than an hour late.
RmTick ==
    /\ rmPc = "loaded"
    /\ DayOf(NextInstant(rmNow)) < MaxReminderDays
    /\ \A t \in rmPending : t.kind # "interval" => t.at >= rmNow
    /\ rmNow' = NextInstant(rmNow)
    /\ UNCHANGED <<rmGranted, rmStored, rmInterval, rmPending, rmHandle, rmRan,
                   rmSince, rmEvents, rmPc>>
    /\ UNCHANGED notRm

RmNext ==
    \/ RmToggle
    \/ RmGranted
    \/ RmSetInterval
    \/ RmClearInterval
    \/ RmFire
    \/ RmFireInterval
    \/ RmTick

InitReminder ==
    RowIdle /\ StrIdle /\ CdIdle /\ ImIdle /\ EscIdle /\ WkIdle /\ HsIdle /\ AnIdle
    /\ RmInit /\ LpIdle

SpecReminder == InitReminder /\ [][RmNext]_vars

\* The last day on which the slot was due while its reminder stood
\* scheduled, the hour in which a late timer fires being over (-1: none).
LastDue(slot) ==
    LET due == {d \in 0..(MaxReminderDays - 1) :
                   /\ rmSince[slot] <= 24 * d + TargetHour(slot)
                   /\ rmNow > 24 * d + TargetHour(slot) + 1}
    IN  IF rmSince[slot] < 0 \/ due = {} THEN 0 - 1
        ELSE CHOOSE d \in due : \A e \in due : e <= d

\* C23: once a daily reminder is scheduled and not disabled, its callback
\* runs on every following day at its time (supplements 9:00 and 22:00,
\* water 20:00, protein 20:00): no day is skipped, also when a timer fires
\* after its target time.
NoDaySkipped ==
    \A slot \in DailySlots : rmRan[slot] >= LastDue(slot)

\* The callback does run on the first day the reminder is due, when the
\* user does nothing after the page is loaded.
FirstDayNotSkipped ==
    \A slot \in DailySlots :
        rmEvents = 0 /\ LastDue(slot) = DayOf(rmSince[slot])
            => rmRan[slot] >= LastDue(slot)

\* The same statement while the user does nothing after the page is loaded.
NoDaySkippedUntouched == rmEvents = 0 => NoDaySkipped

---------------------------------------------------------------------------
(* Properties of the timers *)

\* The slots a variable holds the timer of.
HeldSlots == {"morning", "evening", "water", "protein", "interval"}

\* The reminder is switched off: its key is not 'true' (the interval: absent).
SwitchedOff(slot) ==
    IF slot = "interval" THEN rmInterval = 0
    ELSE ~rmStored[IF slot \in {"morning", "evening"} THEN "supplements" ELSE slot]

\* C24: in every interleaving of enabling, disabling, granting of the
\* permission and firing of timers each slot (supplements morning and
\* evening, water alert, protein alert, water interval) has at most one
\* pending timer, and a reminder that was disabled has none until it is
\* enabled again.
OneTimerPerSlot ==
    \A slot \in HeldSlots :
        /\ Cardinality({t \in rmPending : t.slot = slot}) <= 1
        /\ SwitchedOff(slot) => {t \in rmPending : t.slot = slot} = {}

\* A reminder whose callback ran was switched off while the timer of
\* another slot stays pending.
SwitchedOffAfterRunning ==
    /\ rmEvents > 0
    /\ \E slot \in DailySlots :
          /\ rmRan[slot] >= 0
          /\ SwitchedOff(slot)
          /\ rmSince[slot] < 0
    /\ \E t \in rmPending : t.slot \in HeldSlots

---------------------------------------------------------------------------
(* SpecWorkout: toggleWorkout, resetWorkoutTabs and resetDailyWorkouts *)

\* The state toggleWorkout(type) looks at: the one before with type completed.
ToggledBefore ==
    ObjPut(wkBefore.state, wkOp.type,
           [ObjGet(wkBefore.state, wkOp.type) EXCEPT !.completed = Bool(TRUE)])

\* C25: after every toggleWorkout call the workout state does not have all
\* types completed; when the call completed the last outstanding type,
\* every type is not completed with its default order and every count is
\* 0; and workout_state and workout_count hold the state and counts in
\* memory, the reset ones in that case.
ToggleNeverLeavesAllCompleted ==
    wkOp.op = "toggleWorkout" =>
        /\ ~AllCompleted(wkState)
        /\ AllCompleted(ToggledBefore) =>
              /\ wkState = DefaultWorkoutState
              /\ wkCounts = DefaultWorkoutCounts
        /\ WORKOUT_STATE \in DOMAIN wkStore /\ wkStore[WORKOUT_STATE] = wkState
        /\ WORKOUT_COUNT \in DOMAIN wkStore /\ wkStore[WORKOUT_COUNT] = wkCounts

\* C25, its case: a toggleWorkout call completed the last outstanding type.
ToggledLastOutstanding ==
    /\ wkOp.op = "toggleWorkout"
    /\ AllCompleted(ToggledBefore)
    /\ ~AllCompleted(wkBefore.state)

\* The list of a date, empty when the history has no such date.
ListOf(history, date) ==
    IF ObjHas(history, date) THEN ObjGet(history, date) ELSE <<>>

CompletedIffCounted(state, counts) ==
    \A i \in 1..Len(workoutTypes) :
        /\ ObjHas(state, workoutTypes[i])
        /\ ObjHas(counts, workoutTypes[i])
        /\ (ObjGet(state, workoutTypes[i]).completed = Bool(TRUE))
              <=> (ObjGet(counts, workoutTypes[i]).n > 0)

\* C30: from the default workout state with nothing stored, after every
\* sequence of toggleWorkout, resetWorkoutTabs and resetDailyWorkouts a
\* type is completed exactly when its count is over 0, in memory and in
\* the stored workout_state and workout_count.
CompletedExactlyWhenCounted ==
    /\ wkPc = "running" => CompletedIffCounted(wkState, wkCounts)
    /\ CompletedIffCounted(getJSON(wkStore, WORKOUT_STATE, DefaultWorkoutState),
                           getJSON(wkStore, WORKOUT_COUNT, DefaultWorkoutCounts))

\* C30, its case: a type is completed after a toggleWorkout call that
\* followed a reset of the day, which took the earlier entries of today.
CompletedAfterDailyReset ==
    /\ wkOp.op = "toggleWorkout"
    /\ wkClock = MaxClicks
    /\ wkDay = 0
    /\ Len(ListOf(wkHistory, wkDay)) = 1
    /\ \E i \in 1..Len(workoutTypes) :
          ObjGet(wkState, workoutTypes[i]).completed = Bool(TRUE)

---------------------------------------------------------------------------
(* SpecPress: startLongPress, endLongPress and the long-press timer.  One  *)
(* day cell stands for a habit index with a date key; the habits exist.    *)
(* The timer of a press fires when its 600 ms have passed.                 *)

Cells == 1..2

\* habit.history[dateKey] of the cells when the habits are rendered.
RenderedStatus == <<"none", "done">>

\* const newStatus = (habit.history[dateKey] || 'fail') === 'fail' ? 'done' : 'fail'
newStatus(status) ==
    IF (IF status = "none" THEN "fail" ELSE status) = "fail" THEN "done" ELSE "fail"

\* The pixels a touch has moved from its origin along one axis.
Deltas == {0, 8, 11}

\* if (deltaX > 10 || deltaY > 10)
MoveLimit == 10

NoContext == [set |-> FALSE, element |-> 0, timer |-> 0]

\* What the tracker and the browser hold for the long press.
LpNow ==
    [context |-> lpContext, origin |-> lpOrigin, handler |-> lpHandler,
     listeners |-> lpListeners, timers |-> lpTimers]

\* A clearing that leaves the timer with the browser.
keepPressTimer(timers, context) == timers

\* if (this.longPressContext && this.longPressContext.timer) clearTimeout(...)
clearPressTimer(timers, context) ==
    IF context.set /\ context.timer # 0
    THEN {t \in timers : t.id # context.timer}
    ELSE timers

\* endLongPress(event)
endLongPress(st) ==
    [context |-> NoContext,
     origin |-> FALSE,
     handler |-> 0,
     listeners |-> IF st.handler # 0 THEN st.listeners \ {st.handler}
                   ELSE st.listeners,
     timers |-> clearPressTimer(st.timers, st.context)]

\* startLongPress(habitIndex, dateKey, event, element); id is what
\* setTimeout returns, and names the touchmove handler made as well.
startLongPress(st, id, cell, type) ==
    LET ended == endLongPress(st) IN
    [context |-> [set |-> TRUE, element |-> cell, timer |-> id],
     origin |-> IF type = "touchstart" THEN TRUE ELSE ended.origin,
     handler |-> id,
     listeners |-> ended.listeners \cup {id},
     timers |-> ended.timers \cup {[id |-> id, cell |-> cell]}]

\* touchMoveHandler(moveEvent) of the press id.
touchMoveHandler(st, id, dx, dy) ==
    IF st.origin /\ (dx > MoveLimit \/ dy > MoveLimit)
    THEN [endLongPress(st) EXCEPT !.listeners = @ \ {id}]
    ELSE st

\* A touchmove event of the document: its listeners run in the order in
\* which they were added.
RECURSIVE dispatchTouchMove(_, _, _, _)
dispatchTouchMove(st, ids, dx, dy) ==
    IF ids = {} THEN st
    ELSE LET id == CHOOSE i \in ids : \A j \in ids : i <= j IN
         dispatchTouchMove(IF id \in st.listeners
                           THEN touchMoveHandler(st, id, dx, dy) ELSE st,
                           ids \ {id}, dx, dy)

\* The presses so far, those still waiting for their timer marked with fate.
Marked(press, fate) ==
    [i \in 1..Len(press) |->
        IF press[i].fate = "waiting" /\ press[i].toggled = "no"
        THEN [press[i] EXCEPT !.fate = fate]
        ELSE press[i]]

LpInit ==
    /\ lpStatus = RenderedStatus
    /\ lpContext = NoContext
    /\ lpOrigin = FALSE
    /\ lpHandler = 0
    /\ lpListeners = {}
    /\ lpTimers = {}
    /\ lpPress = <<>>
    /\ lpPc = "rendered"

LpSet(st) ==
    /\ lpContext' = st.context
    /\ lpOrigin' = st.origin
    /\ lpHandler' = st.handler
    /\ lpListeners' = st.listeners
    /\ lpTimers' = st.timers

\* touchstart or mousedown on a day cell.
LpStart ==
    /\ lpPc = "rendered"
    /\ Len(lpPress) < MaxPresses
    /\ \E cell \in Cells, type \in {"touchstart", "mousedown"} :
          /\ LpSet(startLongPress(LpNow, Len(lpPress) + 1, cell, type))
          /\ lpPress' = Append(Marked(lpPress, "superseded"),
                               [cell |-> cell, type |-> type, fate |-> "waiting",
                                toggled |-> "no"])
    /\ UNCHANGED <<lpStatus, lpPc>>
    /\ UNCHANGED notLp

\* touchend, touchcancel, mouseup or mouseleave on a day cell.
LpEnd ==
    /\ lpPc = "rendered"
    /\ \E type \in {"touchend", "touchcancel", "mouseup", "mouseleave"} :
          LpSet(endLongPress(LpNow))
    /\ lpPress' = Marked(lpPress, "ended")
    /\ UNCHANGED <<lpStatus, lpPc>>
    /\ UNCHANGED notLp

\* The page is scrolled.
LpScroll ==
    /\ lpPc = "rendered"
    /\ LpSet(endLongPress(LpNow))
    /\ lpPress' = Marked(lpPress, "ended")
    /\ UNCHANGED <<lpStatus, lpPc>>
    /\ UNCHANGED notLp

\* The touch moves: a touchmove event of the document.
LpTouchMove ==
    /\ lpPc = "rendered"
    /\ \E dx \in Deltas, dy \in Deltas :
       \E st \in {dispatchTouchMove(LpNow, lpListeners, dx, dy)} :
          /\ LpSet(st)
          /\ lpPress' = IF st = LpNow THEN lpPress ELSE Marked(lpPress, "ended")
    /\ UNCHANGED <<lpStatus, lpPc>>
    /\ UNCHANGED notLp

\* 600 ms after a startLongPress its timer fires: the status of the cell
\* is toggled and the touchmove handler of the press removed.
LpTimer ==
    /\ lpPc = "rendered"
    /\ \E t \in lpTimers :
          /\ lpTimers' = lpTimers \ {t}
          /\ lpStatus' = [lpStatus EXCEPT ![t.cell] = newStatus(@)]
          /\ lpListeners' = lpListeners \ {t.id}
          /\ lpPress' = [lpPress EXCEPT ![t.id].toggled =
                            IF lpPress[t.id].fate = "waiting" THEN "live"
                            ELSE "dead"]
    /\ UNCHANGED <<lpContext, lpOrigin, lpHandler, lpPc>>
    /\ UNCHANGED notLp

LpNext ==
    \/ LpStart
    \/ LpEnd
    \/ LpScroll
    \/ LpTouchMove
    \/ LpTimer

InitPress ==
    RowIdle /\ StrIdle /\ CdIdle /\ ImIdle /\ EscIdle /\ WkIdle /\ HsIdle /\ AnIdle
    /\ RmIdle /\ LpInit

SpecPress == InitPress /\ [][LpNext]_vars

\* The status of a cell after n toggles.
RECURSIVE Toggled(_, _)
Toggled(status, n) == IF n = 0 THEN status ELSE Toggled(newStatus(status), n - 1)

\* C27: a press toggles the status of its cell exactly when its 600 ms
\* pass with no endLongPress and no newer startLongPress since it began:
\* no press toggled after it was ended or superseded, the timer of a press
\* is pending exactly while the press is neither ended nor superseded nor
\* done, each status is the rendered one toggled once per such press, and
\* at most one long-press timer is pending.
LongPressTogglesExactly ==
    /\ Cardinality(lpTimers) <= 1
    /\ \A i \in 1..Len(lpPress) :
          /\ lpPress[i].toggled # "dead"
          /\ (lpPress[i].fate = "waiting" /\ lpPress[i].toggled = "no")
                <=> (\E t \in lpTimers : t.id = i /\ t.cell = lpPress[i].cell)
    /\ \A cell \in Cells :
          lpStatus[cell] =
             Toggled(RenderedStatus[cell],
                     Cardinality({i \in 1..Len(lpPress) :
                                     /\ lpPress[i].cell = cell
                                     /\ lpPress[i].toggled = "live"}))

\* C27, its case: one press was released, one was superseded, and a third
\* toggled its cell.
ReleasedSupersededAndToggled ==
    /\ \E i \in 1..Len(lpPress) : lpPress[i].fate = "ended"
    /\ \E i \in 1..Len(lpPress) : lpPress[i].fate = "superseded"
    /\ \E i \in 1..Len(lpPress) : lpPress[i].toggled = "live"

---------------------------------------------------------------------------
(* SpecTolerate: parseCSVData on texts of a header line and data rows that *)
(* are too short, lack a key or carry a habit index that is no number.     *)

\* Data rows as they may stand in a file: whole ones, ones that end after
\* the data_type or the key, ones with an empty key, and habit rows whose
\* index is not a number.
DataRows ==
    { <<"habit">>,
      <<"habit", COMMA>>,
      <<"habit", COMMA, "x">>,
      <<"habit", COMMA, "0">>,
      <<"habit", COMMA, "0", COMMA, COMMA, COMMA, COMMA, COMMA, COMMA, COMMA,
        "Run", COMMA, "blue">>,
      <<"habit_history">>,
      <<"habit_history", COMMA, COMMA, "done">>,
      <<"habit_history", COMMA, "x", UNDERSCORE, "2024-03-09", COMMA, "done">>,
      <<"habit_history", COMMA, "0", UNDERSCORE, "2024-03-09", COMMA, "done">>,
      <<"water">>,
      <<"water", COMMA, COMMA, "7">>,
      <<"water_history">>,
      <<"workout_state">>,
      <<"workout_history", COMMA, COMMA, COMMA, "2024-03-09">>,
      <<"settings">> }

\* The texts of the header line followed by n data rows.
RECURSIVE TextsOfRows(_)
TextsOfRows(n) ==
    IF n = 0 THEN {Join(headers, <<COMMA>>)}
    ELSE {text \o <<LF>> \o row : text \in TextsOfRows(n - 1), row \in DataRows}

TolerateInit ==
    /\ cdStore = <<>>
    /\ \E n \in 1..MaxDataRows : cdCsv \in TextsOfRows(n)
    /\ cdBase = <<>>
    /\ cdEdit = "none"
    /\ cdJunk = FALSE
    /\ cdDecoded = [ok |-> FALSE, error |-> ""]
    /\ cdPc = "exported"

TolerateNext == CdDecode

InitTolerate ==
    RowIdle /\ StrIdle /\ TolerateInit /\ ImIdle /\ EscIdle /\ WkIdle /\ HsIdle
    /\ AnIdle /\ RmIdle /\ LpIdle

SpecTolerate == InitTolerate /\ [][TolerateNext]_vars

\* C28: for every text of at least 2 lines parseCSVData returns, it does
\* not raise: data rows that are too short, lack a key or carry a habit
\* index that is not a number, in habit or habit_history rows, are
\* tolerated.
DecodeNeverRaises ==
    (cdPc = "decoded" /\ Len(SplitLines(cdCsv)) >= 2) => cdDecoded.ok

\* The habit index a data row carries is a number, or the row is of
\* another family.
NumericHabitIndex(line) ==
    LET row == parseCSVRow(line)
        key == Cell(parseCSVRow(Join(headers, <<COMMA>>)), row, "key")
    IN  CASE row # <<>> /\ row[1] = <<"habit">> -> parseInt(key) # NaN
          [] row # <<>> /\ row[1] = <<"habit_history">> ->
                key # Undef /\ parseInt(Str(SplitUnderscore(key.s)[1])) # NaN
          [] OTHER -> TRUE

\* parseCSVData returns for the texts whose habit and habit_history rows
\* all carry a number as index, however short their rows are.
DecodeRaisesOnlyOnHabitIndex ==
    (/\ cdPc = "decoded"
     /\ \A i \in 2..Len(SplitLines(cdCsv)) : NumericHabitIndex(SplitLines(cdCsv)[i]))
        => cdDecoded.ok

\* parseCSVData raises for every text with a habit or habit_history row
\* whose index is not a number.
DecodeRaisesOnHabitIndex ==
    (/\ cdPc = "decoded"
     /\ \E i \in 2..Len(SplitLines(cdCsv)) : ~NumericHabitIndex(SplitLines(cdCsv)[i]))
        => (~cdDecoded.ok /\ cdDecoded.error = "TypeError")

---------------------------------------------------------------------------
(* SpecRoundTrip: the store is exported and the text imported at once into *)
(* the same store, the confirmation accepted and no write failing.         *)

\* The stores of the codec, before and after the first start of the day.
RoundTripStores ==
    CodecStores \cup {checkAndResetDailyWorkouts(st, Today) : st \in CodecStores}

RoundTripInit ==
    /\ imStore \in RoundTripStores
    /\ imBefore = <<>>
    /\ imFile = <<>>
    /\ imSize = 0
    /\ imAnswer = FALSE
    /\ imFailAt = 0
    /\ imOutcome = "none"
    /\ imPc = "ready"

\* exportData() and then importData() of the file it made.
ImExportImport ==
    /\ imPc = "ready"
    /\ \E csv \in {convertDataToCSV(imStore, ExportTime)} :
       \E r \in {importOnload(imStore, csv, ImportTime, SizeLimit, TRUE, 0)} :
          /\ imFile' = csv
          /\ imStore' = r.store
          /\ imOutcome' = r.outcome
    /\ imSize' = SizeLimit
    /\ imAnswer' = TRUE
    /\ imFailAt' = 0
    /\ imBefore' = imStore
    /\ imPc' = "done"
    /\ UNCHANGED notIm

RoundTripNext == ImExportImport

InitRoundTrip ==
    RowIdle /\ StrIdle /\ CdIdle /\ RoundTripInit /\ EscIdle /\ WkIdle /\ HsIdle
    /\ AnIdle /\ RmIdle /\ LpIdle

SpecRoundTrip == InitRoundTrip /\ [][RoundTripNext]_vars

\* The keys the export writes rows for.
ScalarKeys == {GOAL_WATER, INTAKE_WATER, GOAL_PROTEIN, INTAKE_PROTEIN, THEME, REMINDER}

ExportedKeys ==
    ScalarKeys \cup {HISTORY_WATER, HISTORY_PROTEIN, WORKOUT_STATE, WORKOUT_COUNT,
                     WORKOUT_HISTORY, HABITS_DATA}

\* What the application loads from the store: an absent history or habit
\* list loads as an empty one, an absent workout state or count as the
\* default one.
Loaded(storage) ==
    [scalars |-> [k \in ScalarKeys |-> getItem(storage, k)],
     water |-> getJSON(storage, HISTORY_WATER, <<>>),
     protein |-> getJSON(storage, HISTORY_PROTEIN, <<>>),
     state |-> getJSON(storage, WORKOUT_STATE, DefaultWorkoutState),
     count |-> getJSON(storage, WORKOUT_COUNT, DefaultWorkoutCounts),
     history |-> getJSON(storage, WORKOUT_HISTORY, <<>>),
     habits |-> getJSON(storage, HABITS_DATA, <<>>)]

\* The keys outside the export hold what they held.
OtherKeysUntouched(before, after) ==
    /\ DOMAIN after \ ExportedKeys = DOMAIN before \ ExportedKeys
    /\ \A k \in DOMAIN before \ ExportedKeys : after[k] = before[k]

\* C29: exporting the store and importing the text at once into the same
\* store leaves the tracked data as it was: goals, intakes, the water,
\* protein and workout histories, the workout state and counts, the habit
\* list with its histories, theme and reminder load with the values they
\* had, and the keys that are not exported are untouched.
RoundTripKeepsData ==
    imPc = "done" =>
        /\ imOutcome = "imported"
        /\ Loaded(imStore) = Loaded(imBefore)
        /\ OtherKeysUntouched(imBefore, imStore)

\* The import goes through and leaves the other keys alone.
RoundTripImports ==
    imPc = "done" => (imOutcome = "imported" /\ OtherKeysUntouched(imBefore, imStore))

\* The goals, intakes, theme and reminder, and the water and protein
\* histories, load as before.
RoundTripKeepsIntake ==
    imPc = "done" =>
        /\ Loaded(imStore).scalars = Loaded(imBefore).scalars
        /\ Loaded(imStore).water = Loaded(imBefore).water
        /\ Loaded(imStore).protein = Loaded(imBefore).protein

\* The workout state and counts load as before.
RoundTripKeepsWorkoutState ==
    imPc = "done" =>
        /\ Loaded(imStore).state = Loaded(imBefore).state
        /\ Loaded(imStore).count = Loaded(imBefore).count

\* The workout history loads as before.
RoundTripKeepsWorkoutHistory ==
    imPc = "done" => Loaded(imStore).history = Loaded(imBefore).history

\* The habit list loads as before.
RoundTripKeepsHabits ==
    imPc = "done" => Loaded(imStore).habits = Loaded(imBefore).habits

\* The name holds something other than double quotes.
NotAllQuotes(name) == \E i \in 1..Len(name.s) : name.s[i] # QUOTE

\* The data come back when the store holds a workout state and counts, no
\* date of the workout history holds an empty list and no habit name is
\* made of double quotes alone.
RoundTripKeepsDataOfUsedStore ==
    (/\ imPc = "done"
     /\ {WORKOUT_STATE, WORKOUT_COUNT} \subseteq DOMAIN imBefore
     /\ NoEmptyDate(getJSON(imBefore, WORKOUT_HISTORY, <<>>))
     /\ \A i \in 1..Len(getJSON(imBefore, HABITS_DATA, <<>>)) :
           NotAllQuotes(getJSON(imBefore, HABITS_DATA, <<>>)[i].name))
        => /\ imOutcome = "imported"
           /\ Loaded(imStore) = Loaded(imBefore)
           /\ OtherKeysUntouched(imBefore, imStore)
=============================================================================
